---- MODULE Spec2Model ----
(***************************************************************************)
(* Model of the tcs-store document store: InMemoryStore (id -> document    *)
(* map plus operation log behind one lock) and TradeService (save_new,     *)
(* save_update, save_partial with deep merge, load, delete).               *)
(*                                                                         *)
(* JSON values are tagged records:                                         *)
(*   None            [t |-> "null"]                                        *)
(*   number          [t |-> "num",  n |-> 1]                               *)
(*   string          [t |-> "str",  s |-> "t1"]                            *)
(*   dict            [t |-> "map",  m |-> function key -> value]           *)
(*   list            [t |-> "list", l |-> sequence of values]              *)
(*   bool            [t |-> "bool", b |-> TRUE]                            *)
(* A document (the Dict[str, Any] handed to the service) is the bare       *)
(* function key -> value; "key in d" is key \in DOMAIN d.                  *)
(* Context fields are None or a string held as a sequence of characters,   *)
(* so that str.strip() is computed and not assumed.                        *)
(* The timestamp of a log entry (datetime.now) is not modelled.            *)
(*                                                                         *)
(* Specifications: Spec (one caller, one action per service operation),    *)
(* SpecMerge (save_partial over a small universe of documents), SpecConc   *)
(* (concurrent callers of the service, one store call per step),           *)
(* SpecStore (concurrent callers of the store, the lock and the statements *)
(* under it as steps) and SpecFilter (the filter queries).                 *)
(***************************************************************************)
EXTENDS Integers, Sequences, FiniteSets, TLC

VARIABLES
    store,          \* InMemoryStore._store: function present id -> document
    operation_log,  \* InMemoryStore._operation_log: sequence of entries
    call,           \* the service call that completed last (single caller)
    before,         \* store and log as they were when that call started
    threads,        \* concurrent callers: position and locals of each
    merge,          \* the pure deep merge: inputs and result
    lock,           \* InMemoryStore._lock: the caller inside it, 0 when free
    heap            \* the dict objects of the process and who refers to them

vars == <<store, operation_log, call, before, threads, merge, lock, heap>>

----------------------------------------------------------------------------
(* Bounds *)

MaxLog == 3        \* operation log entries in a behaviour of Spec
MaxNum == 1        \* numbers 1..MaxNum in the merge universe
NumThreads == 2    \* concurrent callers of SpecConc

----------------------------------------------------------------------------
(* JSON values *)

None == [t |-> "null"]
Num(n) == [t |-> "num", n |-> n]
Str(s) == [t |-> "str", s |-> s]
Map(m) == [t |-> "map", m |-> m]
List(l) == [t |-> "list", l |-> l]
Bool(b) == [t |-> "bool", b |-> b]

EmptyDict == [k \in {} |-> None]

\* isinstance(v, dict)
IsDict(v) == v.t = "map"

\* d[key] = value on a copy
Put(d, key, value) ==
    [k \in DOMAIN d \cup {key} |-> IF k = key THEN value ELSE d[k]]

\* del d[key] on a copy
Del(d, key) == [k \in DOMAIN d \ {key} |-> d[k]]

\* d.get(key): None when the key is absent
Get(d, key) == IF key \in DOMAIN d THEN d[key] ELSE None

\* Python truthiness of the values an "id" field takes here: None, the
\* empty string and 0 are falsy.
Falsy(v) == v = None \/ v = Str("") \/ v = Num(0)

----------------------------------------------------------------------------
(* Context *)

Whitespace == {" ", "\t", "\n"}

RECURSIVE LStrip(_)
LStrip(c) ==
    IF c # <<>> /\ Head(c) \in Whitespace THEN LStrip(Tail(c)) ELSE c

RECURSIVE RStrip(_)
RStrip(c) ==
    IF c # <<>> /\ c[Len(c)] \in Whitespace
    THEN RStrip(SubSeq(c, 1, Len(c) - 1)) ELSE c

\* str.strip()
Strip(c) == RStrip(LStrip(c))

CStr(c) == [t |-> "str", c |-> c]

\* "not v" alone: a whitespace-only field passes
FieldBlank_no_strip(v) == v = None \/ v.c = <<>>

\* "not v or not v.strip()" of _validate_context for one field
FieldBlank(v) == v = None \/ v.c = <<>> \/ Strip(v.c) = <<>>

\* TradeService._validate_context: TRUE when it raises InvalidContextError
ContextInvalid(context) ==
    \/ FieldBlank(context.user)
    \/ FieldBlank(context.agent)
    \/ FieldBlank(context.action)
    \/ FieldBlank(context.intent)

----------------------------------------------------------------------------
(* Deep merge: TradeService._deep_merge *)

RECURSIVE deep_merge(_, _)
RECURSIVE merge_items(_, _, _)

\* A null always stored as null, also over a dict
merge_item_null_kept(result, key, value) ==
    IF value = None
    THEN Put(result, key, None)
    ELSE IF IsDict(value) /\ key \in DOMAIN result /\ IsDict(result[key])
         THEN Put(result, key, Map(deep_merge(result[key].m, value.m)))
         ELSE Put(result, key, value)

\* A shallow merge: a dict replaces a dict
merge_item_no_recursion(result, key, value) ==
    IF value = None
    THEN IF key \in DOMAIN result /\ IsDict(result[key])
         THEN Del(result, key)
         ELSE Put(result, key, None)
    ELSE Put(result, key, value)

\* Lists extended instead of replaced
merge_item_extends_lists(result, key, value) ==
    IF value = None
    THEN IF key \in DOMAIN result /\ IsDict(result[key])
         THEN Del(result, key)
         ELSE Put(result, key, None)
    ELSE IF IsDict(value) /\ key \in DOMAIN result /\ IsDict(result[key])
         THEN Put(result, key, Map(deep_merge(result[key].m, value.m)))
    ELSE IF value.t = "list" /\ key \in DOMAIN result
            /\ result[key].t = "list"
         THEN Put(result, key, List(result[key].l \o value.l))
         ELSE Put(result, key, value)

\* One iteration of "for key, value in updates.items()"
merge_item(result, key, value) ==
    IF value = None
    THEN IF key \in DOMAIN result
         THEN IF IsDict(result[key])
              THEN Del(result, key)
              ELSE Put(result, key, None)
         ELSE Put(result, key, None)
    ELSE IF IsDict(value) /\ key \in DOMAIN result /\ IsDict(result[key])
         THEN Put(result, key, Map(deep_merge(result[key].m, value.m)))
         ELSE Put(result, key, value)

\* The loop over the items of updates still to be processed
merge_items(result, updates, keys) ==
    IF keys = {}
    THEN result
    ELSE LET key == CHOOSE k \in keys : TRUE
         IN  merge_items(merge_item(result, key, updates[key]),
                         updates, keys \ {key})

\* result = existing.copy(); loop; return result
deep_merge(existing, updates) ==
    merge_items(existing, updates, DOMAIN updates)

----------------------------------------------------------------------------
(* InMemoryStore primitives, each one critical section of the lock.        *)
(* A store state is the record [store, log].                               *)

LogEntry(operation, trade_id, context) ==
    [operation |-> operation, trade_id |-> trade_id, context |-> context]

log_operation_prepends(log, operation, trade_id, context) ==
    <<LogEntry(operation, trade_id, context)>> \o log

\* InMemoryStore._log_operation
log_operation(log, operation, trade_id, context) ==
    Append(log, LogEntry(operation, trade_id, context))

\* A save that drops the fields holding an explicit null
store_save_drops_nulls(st, trade_id, trade_data, context) ==
    [store |-> Put(st.store, trade_id,
                   [k \in {j \in DOMAIN trade_data : trade_data[j] # None}
                      |-> trade_data[k]]),
     log   |-> log_operation(st.log, "save", trade_id, context)]

store_save_no_log(st, trade_id, trade_data, context) ==
    [store |-> Put(st.store, trade_id, trade_data), log |-> st.log]

\* InMemoryStore.save
store_save(st, trade_id, trade_data, context) ==
    [store |-> Put(st.store, trade_id, trade_data),
     log   |-> log_operation(st.log, "save", trade_id, context)]

\* InMemoryStore.get
store_get(st, trade_id) == Get(st.store, trade_id)

\* InMemoryStore.exists
store_exists(st, trade_id) == trade_id \in DOMAIN st.store

store_delete_keeps_document(st, trade_id, context) ==
    IF trade_id \in DOMAIN st.store
    THEN [store |-> st.store,
          log   |-> log_operation(st.log, "delete", trade_id, context)]
    ELSE st

store_delete_logs_always(st, trade_id, context) ==
    [store |-> Del(st.store, trade_id),
     log   |-> log_operation(st.log, "delete", trade_id, context)]

\* InMemoryStore.delete: the state after the call
store_delete(st, trade_id, context) ==
    IF trade_id \in DOMAIN st.store
    THEN [store |-> Del(st.store, trade_id),
          log   |-> log_operation(st.log, "delete", trade_id, context)]
    ELSE st

\* The place of a present id in the dict's insertion order: the dict keeps
\* a key where it was first inserted since its last removal, and the log
\* records the insertions ("save") and removals ("delete") in order.
inserted_at(log, trade_id) ==
    LET entries == {k \in DOMAIN log : log[k].trade_id = trade_id}
        deletes == {k \in entries : log[k].operation = "delete"}
        saves == {k \in entries : /\ log[k].operation = "save"
                                  /\ \A d \in deletes : d < k}
    IN  IF saves = {} THEN Len(log) + 1
        ELSE CHOOSE k \in saves : \A j \in saves : k <= j

RECURSIVE values_in_order(_, _, _)
values_in_order(st, ids, k) ==
    IF k > Len(st.log) + 1 THEN <<>>
    ELSE LET here == {id \in ids : inserted_at(st.log, id) = k}
             RECURSIVE listed(_)
             listed(S) == IF S = {} THEN <<>>
                          ELSE LET id == CHOOSE x \in S : TRUE
                               IN  <<st.store[id]>> \o listed(S \ {id})
         IN  listed(here) \o values_in_order(st, ids, k + 1)

\* InMemoryStore.get_all: list(self._store.values())
store_get_all(st) == values_in_order(st, DOMAIN st.store, 1)

\* A clear that empties the map and records itself in the log
store_clear_logged(st) ==
    [store |-> EmptyDict, log |-> log_operation(<<>>, "clear", "", None)]

\* A clear that empties the map and keeps the log
store_clear_keeps_log(st) == [store |-> EmptyDict, log |-> st.log]

\* InMemoryStore.clear: the state after the call
store_clear(st) == [store |-> EmptyDict, log |-> <<>>]

----------------------------------------------------------------------------
(* TradeService operations run by a single caller.  Each yields            *)
(* [outcome, ret, st]: the error raised or "ok", the value returned and    *)
(* the store state left behind.                                            *)

Result(outcome, ret, st) == [outcome |-> outcome, ret |-> ret, st |-> st]

\* save_new without the existence check
save_new_upsert(st, trade, context) ==
    LET trade_id == Get(trade, "id") IN
    IF ContextInvalid(context) THEN Result("InvalidContext", None, st)
    ELSE IF Falsy(trade_id) THEN Result("ValueError", None, st)
    ELSE Result("ok", trade, store_save(st, trade_id.s, trade, context))

\* A save_new that stores a document without an id under the empty key
save_new_accepts_missing_id(st, trade, context) ==
    LET trade_id == Get(trade, "id")
        key == IF Falsy(trade_id) THEN "" ELSE trade_id.s
    IN  IF ContextInvalid(context) THEN Result("InvalidContext", None, st)
        ELSE IF store_exists(st, key) THEN Result("AlreadyExists", None, st)
        ELSE Result("ok", trade, store_save(st, key, trade, context))

\* TradeService.save_new
save_new(st, trade, context) ==
    LET trade_id == Get(trade, "id") IN
    IF ContextInvalid(context) THEN Result("InvalidContext", None, st)
    ELSE IF Falsy(trade_id) THEN Result("ValueError", None, st)
    ELSE IF store_exists(st, trade_id.s)
         THEN Result("AlreadyExists", None, st)
    ELSE Result("ok", trade, store_save(st, trade_id.s, trade, context))

\* save_update that merges the new document into the stored one
save_update_merges(st, trade, context) ==
    LET trade_id == Get(trade, "id") IN
    IF ContextInvalid(context) THEN Result("InvalidContext", None, st)
    ELSE IF Falsy(trade_id) THEN Result("ValueError", None, st)
    ELSE IF ~store_exists(st, trade_id.s)
         THEN Result("NotFound", None, st)
    ELSE Result("ok", trade,
                store_save(st, trade_id.s,
                           deep_merge(store_get(st, trade_id.s), trade),
                           context))

\* save_update that looks for the id before it validates the context
save_update_id_before_context(st, trade, context) ==
    LET trade_id == Get(trade, "id") IN
    IF Falsy(trade_id) THEN Result("ValueError", None, st)
    ELSE IF ContextInvalid(context) THEN Result("InvalidContext", None, st)
    ELSE IF ~store_exists(st, trade_id.s)
         THEN Result("NotFound", None, st)
    ELSE Result("ok", trade, store_save(st, trade_id.s, trade, context))

\* TradeService.save_update
save_update(st, trade, context) ==
    LET trade_id == Get(trade, "id") IN
    IF ContextInvalid(context) THEN Result("InvalidContext", None, st)
    ELSE IF Falsy(trade_id) THEN Result("ValueError", None, st)
    ELSE IF ~store_exists(st, trade_id.s)
         THEN Result("NotFound", None, st)
    ELSE Result("ok", trade, store_save(st, trade_id.s, trade, context))

\* A load that leaves an entry in the operation log
load_by_id_logged(st, trade_id) ==
    LET trade == store_get(st, trade_id)
        logged == [st EXCEPT !.log = log_operation(st.log, "load", trade_id,
                                                   None)]
    IN  IF trade = None THEN Result("NotFound", None, logged)
        ELSE Result("ok", trade, logged)

\* TradeService.load_by_id
load_by_id(st, trade_id) ==
    LET trade == store_get(st, trade_id) IN
    IF trade = None THEN Result("NotFound", None, st)
    ELSE Result("ok", trade, st)

delete_by_id_strict(st, trade_id, context) ==
    IF ContextInvalid(context) THEN Result("InvalidContext", None, st)
    ELSE IF ~store_exists(st, trade_id) THEN Result("NotFound", None, st)
    ELSE Result("ok", None, store_delete(st, trade_id, context))

\* TradeService.delete_by_id
delete_by_id(st, trade_id, context) ==
    IF ContextInvalid(context) THEN Result("InvalidContext", None, st)
    ELSE Result("ok", None, store_delete(st, trade_id, context))

\* save_partial with dict.update in place of the deep merge
save_partial_shallow(st, trade_id, updates, context) ==
    LET existing_trade == store_get(st, trade_id) IN
    IF ContextInvalid(context) THEN Result("InvalidContext", None, st)
    ELSE IF existing_trade = None THEN Result("NotFound", None, st)
    ELSE LET merged_trade ==
                 [k \in DOMAIN existing_trade \cup DOMAIN updates |->
                     IF k \in DOMAIN updates THEN updates[k]
                     ELSE existing_trade[k]]
         IN  Result("ok", merged_trade,
                    store_save(st, trade_id, merged_trade, context))

\* save_partial with "self._store.get(trade_id) or {}"
save_partial_creates(st, trade_id, updates, context) ==
    LET got == store_get(st, trade_id)
        existing_trade == IF got = None THEN EmptyDict ELSE got IN
    IF ContextInvalid(context) THEN Result("InvalidContext", None, st)
    ELSE LET merged_trade == deep_merge(existing_trade, updates)
         IN  Result("ok", merged_trade,
                    store_save(st, trade_id, merged_trade, context))

\* TradeService.save_partial
save_partial(st, trade_id, updates, context) ==
    LET existing_trade == store_get(st, trade_id) IN
    IF ContextInvalid(context) THEN Result("InvalidContext", None, st)
    ELSE IF existing_trade = None THEN Result("NotFound", None, st)
    ELSE LET merged_trade == deep_merge(existing_trade, updates)
         IN  Result("ok", merged_trade,
                    store_save(st, trade_id, merged_trade, context))

\* The loop of load_by_ids over trade_ids[k..], one store.get per id:
\* lines 416-421
RECURSIVE load_loop(_, _, _, _, _)
load_loop(st, trade_ids, k, found_trades, missing_ids) ==
    IF k > Len(trade_ids)
    THEN Result("ok", [found_trades |-> found_trades,
                       missing_ids |-> missing_ids], st)
    ELSE LET trade == store_get(st, trade_ids[k])
         IN  IF trade # None
             THEN load_loop(st, trade_ids, k + 1,
                            Append(found_trades, trade), missing_ids)
             ELSE load_loop(st, trade_ids, k + 1, found_trades,
                            Append(missing_ids, trade_ids[k]))

\* A group load that raises when an id is missing
load_by_ids_all_or_nothing(st, trade_ids) ==
    LET r == load_loop(st, trade_ids, 1, <<>>, <<>>)
    IN  IF r.ret.missing_ids # <<>> THEN Result("NotFound", None, st) ELSE r

\* TradeService.load_by_ids
load_by_ids(st, trade_ids) == load_loop(st, trade_ids, 1, <<>>, <<>>)

\* The loop of delete_by_ids over trade_ids[k..]: lines 448-453
RECURSIVE delete_loop(_, _, _, _, _, _)
delete_loop(st, trade_ids, k, context, deleted_count, missing_ids) ==
    IF k > Len(trade_ids)
    THEN Result("ok", [deleted_count |-> deleted_count,
                       missing_ids |-> missing_ids], st)
    ELSE IF store_exists(st, trade_ids[k])
    THEN delete_loop(store_delete(st, trade_ids[k], context), trade_ids,
                     k + 1, context, deleted_count + 1, missing_ids)
    ELSE delete_loop(st, trade_ids, k + 1, context, deleted_count,
                     Append(missing_ids, trade_ids[k]))

\* A group delete that counts every occurrence of an id that was present
delete_by_ids_counts_occurrences(st, trade_ids, context) ==
    IF ContextInvalid(context) THEN Result("InvalidContext", None, st)
    ELSE LET r == delete_loop(st, trade_ids, 1, context, 0, <<>>)
         IN  Result("ok",
                    [deleted_count |->
                        Len(SelectSeq(trade_ids,
                                      LAMBDA id : store_exists(st, id))),
                     missing_ids |->
                        SelectSeq(trade_ids,
                                  LAMBDA id : ~store_exists(st, id))],
                    r.st)

\* TradeService.delete_by_ids
delete_by_ids(st, trade_ids, context) ==
    IF ContextInvalid(context) THEN Result("InvalidContext", None, st)
    ELSE delete_loop(st, trade_ids, 1, context, 0, <<>>)

----------------------------------------------------------------------------
(* Filter evaluation.  A field path is the path string cut into pieces,    *)
(* "." being a piece of its own; a string value that is ordered or         *)
(* searched is CStr, a sequence of characters.  A filter is the sequence   *)
(* of the (field path, conditions) items of the filter dict, and a         *)
(* condition set the sequence of its (operator, operand) items, in the     *)
(* dict's own order, which is the order the code visits them in.           *)

\* path.split("."): line 237
RECURSIVE split(_, _, _)
split(path, k, key) ==
    IF k > Len(path) THEN <<key>>
    ELSE IF path[k] = "." THEN <<key>> \o split(path, k + 1, "")
    ELSE split(path, k + 1, key \o path[k])

\* The loop of _get_nested_value over keys[k..]: lines 240-244
RECURSIVE nested_value(_, _, _)
nested_value(current, keys, k) ==
    IF k > Len(keys) THEN current
    ELSE IF IsDict(current) /\ keys[k] \in DOMAIN current.m
    THEN nested_value(current.m[keys[k]], keys, k + 1)
    ELSE None

\* A lookup of the first key alone
get_nested_value_first_key(data, path) ==
    nested_value(Map(data), <<split(path, 1, "")[1]>>, 1)

\* TradeService._get_nested_value
get_nested_value(data, path) == nested_value(Map(data), split(path, 1, ""), 1)

\* ord() of the characters that occur in the strings compared here
ord == ("$" :> 36) @@ ("(" :> 40) @@ ("." :> 46) @@ ("1" :> 49)
       @@ ("2" :> 50) @@ ("3" :> 51) @@ ("4" :> 52) @@ ("5" :> 53)
       @@ ("6" :> 54) @@ ("7" :> 55) @@ ("8" :> 56) @@ ("[" :> 91)
       @@ ("^" :> 94) @@ ("a" :> 97) @@ ("b" :> 98) @@ ("t" :> 116)

\* The characters of the document ids, which are held as whole strings
id_chars == [n \in {"1", "2", "3", "4", "5", "6", "7", "8"} |-> <<"t", n>>]
chars_of(v) ==
    IF "c" \in DOMAIN v THEN v.c
    ELSE IF v.s = "" THEN <<>>
    ELSE LET n == CHOOSE x \in DOMAIN id_chars : "t" \o x = v.s
         IN  id_chars[n]

IsNumber(v) == v.t \in {"num", "bool"}
\* bool is a subclass of int: True is 1, False is 0
number_of(v) == IF v.t = "bool" THEN (IF v.b THEN 1 ELSE 0) ELSE v.n

\* Python ==, on the values of documents and operands
RECURSIVE py_eq(_, _)
py_eq(a, b) ==
    IF IsNumber(a) /\ IsNumber(b) THEN number_of(a) = number_of(b)
    ELSE IF a.t # b.t THEN FALSE
    ELSE CASE a.t = "null" -> TRUE
           [] a.t = "str" -> chars_of(a) = chars_of(b)
           [] a.t = "list" ->
                /\ Len(a.l) = Len(b.l)
                /\ \A k \in DOMAIN a.l : py_eq(a.l[k], b.l[k])
           [] a.t = "map" ->
                /\ DOMAIN a.m = DOMAIN b.m
                /\ \A k \in DOMAIN a.m : py_eq(a.m[k], b.m[k])

\* Lexicographic order of two strings by ord()
RECURSIVE str_order(_, _, _)
str_order(x, y, k) ==
    IF k > Len(x) /\ k > Len(y) THEN "eq"
    ELSE IF k > Len(x) THEN "lt"
    ELSE IF k > Len(y) THEN "gt"
    ELSE IF ord[x[k]] < ord[y[k]] THEN "lt"
    ELSE IF ord[x[k]] > ord[y[k]] THEN "gt"
    ELSE str_order(x, y, k + 1)

\* Python <, ==, > on two values: "lt", "eq", "gt", or "TypeError" when
\* the types do not support the ordering
RECURSIVE py_order(_, _)
RECURSIVE list_order(_, _, _)
list_order(x, y, k) ==
    IF k > Len(x) /\ k > Len(y) THEN "eq"
    ELSE IF k > Len(x) THEN "lt"
    ELSE IF k > Len(y) THEN "gt"
    ELSE IF py_eq(x[k], y[k]) THEN list_order(x, y, k + 1)
    ELSE py_order(x[k], y[k])

py_order(a, b) ==
    IF IsNumber(a) /\ IsNumber(b)
    THEN IF number_of(a) < number_of(b) THEN "lt"
         ELSE IF number_of(a) > number_of(b) THEN "gt" ELSE "eq"
    ELSE IF a.t = "str" /\ b.t = "str"
    THEN str_order(chars_of(a), chars_of(b), 1)
    ELSE IF a.t = "list" /\ b.t = "list" THEN list_order(a.l, b.l, 1)
    ELSE "TypeError"

\* re.compile raises re.error: of the characters used here, an opening
\* parenthesis or bracket is never closed
pattern_error(p) == \E k \in DOMAIN p : p[k] \in {"(", "["}

\* The pattern from p[i] on matches the string from s[j] on.  "^" holds
\* at the start only, "$" at the end only (the strings have no newline),
\* "." takes any character, any other character takes itself.
RECURSIVE match_here(_, _, _, _)
match_here(p, i, s, j) ==
    IF i > Len(p) THEN TRUE
    ELSE CASE p[i] = "^" -> j = 1 /\ match_here(p, i + 1, s, j)
           [] p[i] = "$" -> j = Len(s) + 1 /\ match_here(p, i + 1, s, j)
           [] p[i] = "." -> j <= Len(s) /\ match_here(p, i + 1, s, j + 1)
           [] OTHER -> /\ j <= Len(s)
                       /\ s[j] = p[i]
                       /\ match_here(p, i + 1, s, j + 1)

\* re.search(pattern, string): "found", "none", "error" (re.error) or
\* "TypeError" (the pattern is not a string)
re_search(pattern, string) ==
    IF pattern.t # "str" THEN "TypeError"
    ELSE IF pattern_error(chars_of(pattern)) THEN "error"
    ELSE IF \E j \in 1..(Len(chars_of(string)) + 1) :
               match_here(chars_of(pattern), 1, chars_of(string), j)
    THEN "found" ELSE "none"

\* The conditions of one field path, a dict of operator -> operand
Conds(items) == [t |-> "conds", items |-> items]
Cond(operator, expected_value) ==
    [operator |-> operator, expected_value |-> expected_value]
\* TradeFilter.filter: None, or a dict of field path -> conditions
FilterDict(items) == [t |-> "filter", items |-> items]
Item(field_path, conditions) ==
    [field_path |-> field_path, conditions |-> conditions]
TradeFilter(filter) == [filter |-> filter]

\* A comparison that holds on equal values for every operator
compare_always_inclusive(field_value, expected_value, orders) ==
    IF field_value = None THEN "fail"
    ELSE LET o == py_order(field_value, expected_value)
         IN  IF o = "TypeError" THEN "TypeError"
             ELSE IF o \in orders \cup {"eq"} THEN "pass" ELSE "fail"

\* A comparison operator: the value is not None and is in the given
\* orders to the operand; lines 290-304
compare(field_value, expected_value, orders) ==
    IF field_value = None THEN "fail"
    ELSE LET o == py_order(field_value, expected_value)
         IN  IF o = "TypeError" THEN "TypeError"
             ELSE IF o \in orders THEN "pass" ELSE "fail"

\* One (operator, operand) condition on the value resolved: "pass" (go
\* on), "fail" (return False), or the error raised; lines 281-330
check(operator, field_value, expected_value) ==
    CASE operator = "eq" ->
           IF ~py_eq(field_value, expected_value) THEN "fail" ELSE "pass"
      [] operator = "ne" ->
           IF py_eq(field_value, expected_value) THEN "fail" ELSE "pass"
      [] operator = "gt" -> compare(field_value, expected_value, {"gt"})
      [] operator = "gte" ->
           compare(field_value, expected_value, {"gt", "eq"})
      [] operator = "lt" -> compare(field_value, expected_value, {"lt"})
      [] operator = "lte" ->
           compare(field_value, expected_value, {"lt", "eq"})
      [] operator = "regex" ->
           IF field_value = None THEN "fail"
           ELSE IF field_value.t # "str" THEN "fail"
           ELSE LET found == re_search(expected_value, field_value)
                IN  IF found = "found" THEN "pass"
                    ELSE IF found = "none" THEN "fail"
                    ELSE IF found = "error" THEN "InvalidFilter"
                    ELSE "TypeError"
      [] operator = "in" ->
           IF expected_value.t # "list" THEN "InvalidFilter"
           ELSE IF \E k \in DOMAIN expected_value.l :
                      py_eq(field_value, expected_value.l[k])
           THEN "pass" ELSE "fail"
      [] operator = "nin" ->
           IF expected_value.t # "list" THEN "InvalidFilter"
           ELSE IF \E k \in DOMAIN expected_value.l :
                      py_eq(field_value, expected_value.l[k])
           THEN "fail" ELSE "pass"
      [] OTHER -> "InvalidFilter"

\* The loop over conditions.items() from the k-th item on: line 280
RECURSIVE check_all(_, _, _)
check_all(field_value, conditions, k) ==
    IF k > Len(conditions) THEN "pass"
    ELSE LET c == check(conditions[k].operator, field_value,
                        conditions[k].expected_value)
         IN  IF c = "pass" THEN check_all(field_value, conditions, k + 1)
             ELSE c

\* The loop over filter_obj.filter.items() from the k-th item on: "True",
\* "False" or the error raised; lines 272-332
RECURSIVE apply_items(_, _, _)
apply_items(trade, items, k) ==
    IF k > Len(items) THEN "True"
    ELSE IF items[k].conditions.t # "conds" THEN "InvalidFilter"
    ELSE LET field_value == get_nested_value(trade, items[k].field_path)
             c == check_all(field_value, items[k].conditions.items, 1)
         IN  IF c = "pass" THEN apply_items(trade, items, k + 1)
             ELSE IF c = "fail" THEN "False"
             ELSE c

\* An evaluation in which a filter without criteria matches nothing
apply_filter_needs_criteria(trade, filter_obj) ==
    IF filter_obj.filter = None \/ filter_obj.filter.items = <<>> THEN "False"
    ELSE apply_items(trade, filter_obj.filter.items, 1)

\* TradeService._apply_filter
apply_filter(trade, filter_obj) ==
    IF filter_obj.filter = None \/ filter_obj.filter.items = <<>> THEN "True"
    ELSE apply_items(trade, filter_obj.filter.items, 1)

\* The list comprehension of load_by_filter over all_trades[k..]: the
\* failure raised by the first document whose evaluation fails, else the
\* matching documents; lines 350-354
RECURSIVE matching_trades(_, _, _, _)
matching_trades(all_trades, filter_obj, k, matching) ==
    IF k > Len(all_trades) THEN [outcome |-> "ok", ret |-> List(matching)]
    ELSE LET m == apply_filter(all_trades[k], filter_obj)
         IN  IF m = "True"
             THEN matching_trades(all_trades, filter_obj, k + 1,
                                  Append(matching, all_trades[k]))
             ELSE IF m = "False"
             THEN matching_trades(all_trades, filter_obj, k + 1, matching)
             ELSE [outcome |-> m, ret |-> None]

\* TradeService.load_by_filter
load_by_filter(st, filter_obj) ==
    LET r == matching_trades(store_get_all(st), filter_obj, 1, <<>>)
    IN  Result(r.outcome, r.ret, st)

\* TradeService.list_by_filter
list_by_filter(st, filter_obj) == load_by_filter(st, filter_obj)

\* sum(1 for trade in all_trades if ...) of count_by_filter over
\* all_trades[k..]: line 397
RECURSIVE count_matching(_, _, _, _)
count_matching(all_trades, filter_obj, k, count) ==
    IF k > Len(all_trades) THEN [outcome |-> "ok", ret |-> Num(count)]
    ELSE LET m == apply_filter(all_trades[k], filter_obj)
         IN  IF m = "True"
             THEN count_matching(all_trades, filter_obj, k + 1, count + 1)
             ELSE IF m = "False"
             THEN count_matching(all_trades, filter_obj, k + 1, count)
             ELSE [outcome |-> m, ret |-> None]

count_by_filter_counts_all(st, filter_obj) ==
    Result("ok", Num(Len(store_get_all(st))), st)

\* TradeService.count_by_filter
count_by_filter(st, filter_obj) ==
    LET r == count_matching(store_get_all(st), filter_obj, 1, 0)
    IN  Result(r.outcome, r.ret, st)

----------------------------------------------------------------------------
(* Inputs of the single-caller specification *)

CtxA == [user |-> CStr(<<"u">>), agent |-> CStr(<<"g">>),
         action |-> CStr(<<"s">>), intent |-> CStr(<<"i">>)]
CtxB == [CtxA EXCEPT !.user = CStr(<<"v", "2">>)]

ValidContexts == {CtxA, CtxB}

\* A missing field (None), an empty one and whitespace-only ones
BlankValues == {None, CStr(<<>>), CStr(<<"\t", " ">>)}

ContextFields == {"user", "agent", "action", "intent"}

InvalidContexts ==
    {[CtxA EXCEPT ![f] = b] : f \in ContextFields, b \in BlankValues}

Contexts == ValidContexts \cup InvalidContexts

TradeIds == {"t1", "t2"}

\* Scenario A of the documentation
DocA == [id |-> Str("t1"),
         data |-> Map([a |-> Num(1), b |-> Map([c |-> Num(2)])])]
\* Scenario B
DocB == [id |-> Str("t2"), notional |-> Num(100)]
\* A list, an explicit null and none of DocA's fields but the id
DocC == [id |-> Str("t1"), tags |-> List(<<Num(1), Num(2)>>), note |-> None]
\* Documents save_new and save_update refuse
DocNoId == [data |-> Map([a |-> Num(1)])]
DocEmptyId == [id |-> Str(""), notional |-> Num(100)]

Trades == {DocA, DocB, DocC, DocNoId, DocEmptyId}

\* Id lists of the group operations: a repeated id, a present and an
\* absent one
TradeIdLists == {<<"t1", "t2">>, <<"t2", "t1", "t2">>, <<>>}

UpdA == [data |-> Map([b |-> None, d |-> Num(5)])]
UpdB == [notional |-> None]
UpdTags == [tags |-> List(<<Num(3)>>)]
UpdData == [data |-> None, extra |-> None]
\* An update that names the "id" field
UpdId == [id |-> Str("t2")]

Updates == {UpdA, UpdB, UpdTags, UpdData, UpdId}

----------------------------------------------------------------------------
(* Single-caller specification: one action per service operation *)

St == [store |-> store, log |-> operation_log]

NoCall == [op |-> "none", trade |-> None, trade_id |-> "", trade_ids |-> <<>>,
           updates |-> None, filter_obj |-> TradeFilter(None),
           context |-> CtxA, outcome |-> "none", ret |-> None,
           status_code |-> 0]

IdleThread == [pc |-> "idle", op |-> "none", trade |-> None, trade_id |-> "",
               updates |-> None, existing |-> None, context |-> CtxA,
               outcome |-> "none", ret |-> None, seen |-> None]
\* No object yet, nothing stored, no reference handed out
NoHeap == [objects |-> <<>>, store |-> EmptyDict, held |-> {}, updates |-> {}]
IdleThreads == [i \in 1..NumThreads |-> IdleThread]
NoMerge == [existing |-> EmptyDict, updates |-> EmptyDict, done |-> FALSE,
            result |-> EmptyDict]

Init ==
    /\ store = EmptyDict
    /\ operation_log = <<>>
    /\ call = NoCall
    /\ before = [store |-> EmptyDict, log |-> <<>>]
    /\ threads = IdleThreads
    /\ merge = NoMerge
    /\ lock = 0
    /\ heap = NoHeap

\* An exception handler that is missing the one for ValueError
exception_handler_without_value_error(outcome) ==
    CASE outcome = "NotFound" -> 404
      [] outcome = "AlreadyExists" -> 409
      [] outcome = "InvalidFilter" -> 422
      [] outcome = "InvalidContext" -> 422
      [] OTHER -> 500

\* The exception handlers of the application: the status of the response
\* to a request whose service call raised; main.py 108-166
exception_handler(outcome) ==
    CASE outcome = "NotFound" -> 404
      [] outcome = "AlreadyExists" -> 409
      [] outcome = "InvalidFilter" -> 422
      [] outcome = "InvalidContext" -> 422
      [] outcome = "ValueError" -> 422
      [] OTHER -> 500

\* The status of the response to the request that made the call: that of
\* the route when the call returned (201 for /save/new, else 200)
status_code(op, outcome) ==
    IF outcome = "ok" THEN IF op = "save_new" THEN 201 ELSE 200
    ELSE exception_handler(outcome)

\* purge_store of api/admin.py: the number of documents, then store.clear();
\* lines 375-384
purge_store(st, context) ==
    LET all_trades == store_get_all(st)
        count == Len(all_trades)
    IN  Result("ok", [message |-> "Store purged successfully",
                      trades_deleted |-> count], store_clear(st))

\* The caller makes a call, which returns or raises: its effect on the
\* store and its record
Complete(op, trade, trade_id, trade_ids, updates, context, r) ==
    /\ call.op = "none"
    /\ Len(operation_log) < MaxLog
    /\ store' = r.st.store
    /\ operation_log' = r.st.log
    /\ call' = [op |-> op, trade |-> trade, trade_id |-> trade_id,
                trade_ids |-> trade_ids, updates |-> updates,
                filter_obj |-> TradeFilter(None), context |-> context,
                outcome |-> r.outcome, ret |-> r.ret,
                status_code |-> status_code(op, r.outcome)]
    /\ before' = St
    /\ UNCHANGED <<threads, merge, lock, heap>>

SaveNew ==
    \E trade \in Trades, context \in Contexts :
        Complete("save_new", trade, "", <<>>, None, context,
                 save_new(St, trade, context))

SaveUpdate ==
    \E trade \in Trades, context \in Contexts :
        Complete("save_update", trade, "", <<>>, None, context,
                 save_update(St, trade, context))

SavePartial ==
    \E trade_id \in TradeIds, updates \in Updates, context \in Contexts :
        Complete("save_partial", None, trade_id, <<>>, updates, context,
                 save_partial(St, trade_id, updates, context))

LoadById ==
    \E trade_id \in TradeIds :
        Complete("load_by_id", None, trade_id, <<>>, None, CtxA,
                 load_by_id(St, trade_id))

LoadByIds ==
    \E trade_ids \in TradeIdLists :
        Complete("load_by_ids", None, "", trade_ids, None, CtxA,
                 load_by_ids(St, trade_ids))

DeleteById ==
    \E trade_id \in TradeIds, context \in Contexts :
        Complete("delete_by_id", None, trade_id, <<>>, None, context,
                 delete_by_id(St, trade_id, context))

DeleteByIds ==
    \E trade_ids \in TradeIdLists, context \in Contexts :
        Complete("delete_by_ids", None, "", trade_ids, None, context,
                 delete_by_ids(St, trade_ids, context))

\* The store is cleared (the admin purge calls store.clear()); nothing is
\* appended, so the call needs no room in the log
Clear ==
    /\ call.op = "none"
    /\ LET st == store_clear(St)
       IN  /\ store' = st.store
           /\ operation_log' = st.log
    /\ call' = [NoCall EXCEPT !.op = "clear", !.outcome = "ok"]
    /\ before' = St
    /\ UNCHANGED <<threads, merge, lock, heap>>

\* The caller has seen the outcome and is ready for its next call
Return ==
    /\ call.op # "none"
    /\ call' = NoCall
    /\ before' = St
    /\ UNCHANGED <<store, operation_log, threads, merge, lock, heap>>

Next ==
    \/ SaveNew
    \/ SaveUpdate
    \/ SavePartial
    \/ LoadById
    \/ LoadByIds
    \/ DeleteById
    \/ DeleteByIds
    \/ Clear
    \/ Return

Spec == Init /\ [][Next]_vars

----------------------------------------------------------------------------
(* Deep merge as a pure function over a bounded universe of documents:     *)
(* keys a and b; a value is None, a number, a list, a small dict, and      *)
(* under key a also a dict of such values, so that the recursion is        *)
(* entered, and a dict is met inside it.                                   *)

MergeKeys == {"a", "b"}

Leaves ==
    {None, List(<<Num(1)>>), List(<<Num(2), Num(3)>>), Map([c |-> Num(1)])}
        \cup {Num(n) : n \in 1..MaxNum}

DictsOver(keys, values) == UNION {[D -> values] : D \in SUBSET keys}

InnerDicts == DictsOver(MergeKeys, Leaves)

MergeDocs ==
    {d \in DictsOver(MergeKeys, Leaves \cup {Map(m) : m \in InnerDicts}) :
        "b" \in DOMAIN d => d["b"] \in Leaves}

\* The id under which the document of the universe is stored
MergeId == "t1"

\* The store after save_new of a document of the universe
InitMerge ==
    /\ call = NoCall
    /\ threads = IdleThreads
    /\ lock = 0
    /\ heap = NoHeap
    /\ \E doc \in MergeDocs, updates \in MergeDocs :
         LET existing == Put(doc, "id", Str(MergeId))
             st == store_save([store |-> EmptyDict, log |-> <<>>],
                              MergeId, existing, CtxA)
         IN  /\ store = st.store
             /\ operation_log = st.log
             /\ before = st
             /\ merge = [existing |-> existing, updates |-> updates,
                         done |-> FALSE, result |-> EmptyDict]

\* save_partial of the stored document with the updates drawn
PartialUpdate ==
    /\ ~merge.done
    /\ LET r == save_partial(St, MergeId, merge.updates, CtxB)
       IN  /\ r.outcome = "ok"
           /\ store' = r.st.store
           /\ operation_log' = r.st.log
           /\ merge' = [merge EXCEPT !.done = TRUE, !.result = r.ret]
    /\ UNCHANGED <<call, before, threads, lock, heap>>

NextMerge == PartialUpdate

SpecMerge == InitMerge /\ [][NextMerge]_vars

----------------------------------------------------------------------------
(* Concurrent callers.  Every InMemoryStore call is one atomic step (it    *)
(* holds the lock from entry to return); a service operation is the        *)
(* sequence of its store calls, and other callers run between them.        *)

ThreadIds == 1..NumThreads

ConcTrades == {DocA, DocB, DocC}
ConcContexts == {CtxA, CtxB, [CtxA EXCEPT !.intent = CStr(<<" ">>)]}

\* The id the concurrent updates and deletes contend for, and two partial
\* updates that touch different fields of its document
ConcId == "t1"
UpdNote == [note |-> Num(1)]
ConcUpdates == {UpdA, UpdNote}

\* The store the callers start on: empty, or holding ConcId's document
InitConc ==
    /\ call = NoCall
    /\ threads = IdleThreads
    /\ merge = NoMerge
    /\ lock = 0
    /\ heap = NoHeap
    /\ \E st \in {[store |-> EmptyDict, log |-> <<>>],
                   store_save([store |-> EmptyDict, log |-> <<>>],
                              ConcId, DocA, CtxA)} :
         /\ store = st.store
         /\ operation_log = st.log
         /\ before = st

Finish(i, outcome, ret) ==
    [threads EXCEPT ![i].pc = "done", ![i].outcome = outcome, ![i].ret = ret]

\* save_new up to its first store call: lines 63-67
SaveNewBegin(i) ==
    /\ threads[i].pc = "idle"
    /\ \E trade \in ConcTrades, context \in ConcContexts :
         LET t == [threads[i] EXCEPT !.op = "save_new", !.trade = trade,
                                     !.context = context]
         IN  threads' =
               IF ContextInvalid(context)
               THEN [threads EXCEPT ![i] = [t EXCEPT !.pc = "done",
                                            !.outcome = "InvalidContext"]]
               ELSE IF Falsy(Get(trade, "id"))
               THEN [threads EXCEPT ![i] = [t EXCEPT !.pc = "done",
                                            !.outcome = "ValueError"]]
               ELSE [threads EXCEPT ![i] = [t EXCEPT !.pc = "exists"]]
    /\ UNCHANGED <<store, operation_log, call, before, merge, lock, heap>>

\* save_new: "if self._store.exists(trade_id): raise", lines 70-71
SaveNewExists(i) ==
    /\ threads[i].pc = "exists"
    /\ threads[i].op = "save_new"
    /\ threads' =
         IF store_exists(St, threads[i].trade["id"].s)
         THEN Finish(i, "AlreadyExists", None)
         ELSE [threads EXCEPT ![i].pc = "save"]
    /\ UNCHANGED <<store, operation_log, call, before, merge, lock, heap>>

\* save_new: self._store.save(...) and return, lines 74-77
SaveNewSave(i) ==
    /\ threads[i].pc = "save"
    /\ threads[i].op = "save_new"
    /\ LET st == store_save(St, threads[i].trade["id"].s, threads[i].trade,
                            threads[i].context)
       IN  /\ store' = st.store
           /\ operation_log' = st.log
    /\ threads' = Finish(i, "ok", threads[i].trade)
    /\ UNCHANGED <<call, before, merge, lock, heap>>

\* save_update up to its first store call: lines 94-98 (the documents
\* offered carry an id)
SaveUpdateBegin(i) ==
    /\ threads[i].pc = "idle"
    /\ \E trade \in {DocC, DocB}, context \in ConcContexts :
         LET t == [threads[i] EXCEPT !.op = "save_update", !.trade = trade,
                                     !.trade_id = trade["id"].s,
                                     !.context = context]
         IN  threads' =
               IF ContextInvalid(context)
               THEN [threads EXCEPT ![i] = [t EXCEPT !.pc = "done",
                                            !.outcome = "InvalidContext"]]
               ELSE [threads EXCEPT ![i] = [t EXCEPT !.pc = "exists"]]
    /\ UNCHANGED <<store, operation_log, call, before, merge, lock, heap>>

\* save_update: "if not self._store.exists(trade_id): raise", lines 101-102
SaveUpdateExists(i) ==
    /\ threads[i].pc = "exists"
    /\ threads[i].op = "save_update"
    /\ threads' =
         IF store_exists(St, threads[i].trade_id)
         THEN [threads EXCEPT ![i].pc = "save"]
         ELSE Finish(i, "NotFound", None)
    /\ UNCHANGED <<store, operation_log, call, before, merge, lock, heap>>

\* save_update: self._store.save(...) and return, lines 105-108
SaveUpdateSave(i) ==
    /\ threads[i].pc = "save"
    /\ threads[i].op = "save_update"
    /\ LET st == store_save(St, threads[i].trade_id, threads[i].trade,
                            threads[i].context)
       IN  /\ store' = st.store
           /\ operation_log' = st.log
    /\ threads' = Finish(i, "ok", threads[i].trade)
    /\ UNCHANGED <<call, before, merge, lock, heap>>

\* save_partial up to its first store call: line 208
SavePartialBegin(i) ==
    /\ threads[i].pc = "idle"
    /\ \E updates \in ConcUpdates, context \in ConcContexts :
         LET t == [threads[i] EXCEPT !.op = "save_partial",
                                     !.trade_id = ConcId,
                                     !.updates = updates,
                                     !.context = context]
         IN  threads' =
               IF ContextInvalid(context)
               THEN [threads EXCEPT ![i] = [t EXCEPT !.pc = "done",
                                            !.outcome = "InvalidContext"]]
               ELSE [threads EXCEPT ![i] = [t EXCEPT !.pc = "get"]]
    /\ UNCHANGED <<store, operation_log, call, before, merge, lock, heap>>

\* save_partial: existing_trade = self._store.get(trade_id) and the
\* None check, lines 211-213
SavePartialGet(i) ==
    /\ threads[i].pc = "get"
    /\ threads[i].op = "save_partial"
    /\ LET existing_trade == store_get(St, threads[i].trade_id)
       IN  threads' =
             IF existing_trade = None
             THEN Finish(i, "NotFound", None)
             ELSE [threads EXCEPT ![i].pc = "save",
                                  ![i].existing = existing_trade]
    /\ UNCHANGED <<store, operation_log, call, before, merge, lock, heap>>

\* save_partial: merge into the document that was read, save the result
\* and return it, lines 216-222
SavePartialSave(i) ==
    /\ threads[i].pc = "save"
    /\ threads[i].op = "save_partial"
    /\ LET merged_trade == deep_merge(threads[i].existing, threads[i].updates)
           st == store_save(St, threads[i].trade_id, merged_trade,
                            threads[i].context)
       IN  /\ store' = st.store
           /\ operation_log' = st.log
           /\ threads' = Finish(i, "ok", merged_trade)
    /\ UNCHANGED <<call, before, merge, lock, heap>>

\* delete_by_id: one store.delete call, lines 142-146
DeleteByIdCall(i) ==
    /\ threads[i].pc = "idle"
    /\ \E context \in ConcContexts :
         LET t == [threads[i] EXCEPT !.op = "delete_by_id",
                                     !.trade_id = ConcId,
                                     !.context = context, !.pc = "done"]
             st == IF ContextInvalid(context)
                   THEN St
                   ELSE store_delete(St, ConcId, context)
         IN  /\ store' = st.store
             /\ operation_log' = st.log
             /\ threads' = [threads EXCEPT ![i] =
                               [t EXCEPT !.outcome =
                                   IF ContextInvalid(context)
                                   THEN "InvalidContext" ELSE "ok"]]
    /\ UNCHANGED <<call, before, merge, lock, heap>>

\* The ids a concurrent group load asks for: the contended id, twice
ConcLoadIds == <<ConcId, ConcId>>

\* load_by_ids up to its loop: the two empty lists, lines 413-414
LoadByIdsBegin(i) ==
    /\ threads[i].pc = "idle"
    /\ threads' = [threads EXCEPT ![i].op = "load_by_ids",
                                  ![i].pc = "load",
                                  ![i].ret = [found_trades |-> <<>>,
                                              missing_ids |-> <<>>]]
    /\ UNCHANGED <<store, operation_log, call, before, merge, lock, heap>>

\* load_by_ids: one turn of the loop, with its own store.get call, and the
\* return after the last one; lines 416-423
LoadByIdsGet(i) ==
    /\ threads[i].pc = "load"
    /\ threads[i].op = "load_by_ids"
    /\ LET found_trades == threads[i].ret.found_trades
           missing_ids == threads[i].ret.missing_ids
           k == Len(found_trades) + Len(missing_ids) + 1
           trade == store_get(St, ConcLoadIds[k])
           ret == IF trade # None
                  THEN [found_trades |-> Append(found_trades, trade),
                        missing_ids |-> missing_ids]
                  ELSE [found_trades |-> found_trades,
                        missing_ids |-> Append(missing_ids, ConcLoadIds[k])]
       IN  threads' = IF k = Len(ConcLoadIds)
                      THEN Finish(i, "ok", ret)
                      ELSE [threads EXCEPT ![i].ret = ret]
    /\ UNCHANGED <<store, operation_log, call, before, merge, lock, heap>>

\* The ids a concurrent group delete asks for
ConcDeleteIds == <<ConcId, "t2">>

\* delete_by_ids up to its loop: validation and the two locals, lines
\* 442-446
DeleteByIdsBegin(i) ==
    /\ threads[i].pc = "idle"
    /\ \E context \in ConcContexts :
         LET t == [threads[i] EXCEPT !.op = "delete_by_ids",
                                     !.context = context]
         IN  threads' =
               IF ContextInvalid(context)
               THEN [threads EXCEPT ![i] = [t EXCEPT !.pc = "done",
                                            !.outcome = "InvalidContext"]]
               ELSE [threads EXCEPT ![i] =
                        [t EXCEPT !.pc = "exists",
                                  !.ret = [deleted_count |-> 0,
                                           missing_ids |-> <<>>]]]
    /\ UNCHANGED <<store, operation_log, call, before, merge, lock, heap>>

\* delete_by_ids: "if self._store.exists(trade_id)" of one loop turn, else
\* missing_ids.append(trade_id); lines 448-449 and 452-455
DeleteByIdsExists(i) ==
    /\ threads[i].pc = "exists"
    /\ threads[i].op = "delete_by_ids"
    /\ LET deleted_count == threads[i].ret.deleted_count
           missing_ids == threads[i].ret.missing_ids
           k == deleted_count + Len(missing_ids) + 1
           ret == [deleted_count |-> deleted_count,
                   missing_ids |-> Append(missing_ids, ConcDeleteIds[k])]
       IN  threads' =
             IF store_exists(St, ConcDeleteIds[k])
             THEN [threads EXCEPT ![i].pc = "delete"]
             ELSE IF k = Len(ConcDeleteIds) THEN Finish(i, "ok", ret)
             ELSE [threads EXCEPT ![i].ret = ret]
    /\ UNCHANGED <<store, operation_log, call, before, merge, lock, heap>>

\* delete_by_ids: self._store.delete(trade_id, context_dict), whose result
\* is dropped, and deleted_count += 1; lines 450-451 and 455
DeleteByIdsDelete(i) ==
    /\ threads[i].pc = "delete"
    /\ threads[i].op = "delete_by_ids"
    /\ LET deleted_count == threads[i].ret.deleted_count
           missing_ids == threads[i].ret.missing_ids
           k == deleted_count + Len(missing_ids) + 1
           st == store_delete(St, ConcDeleteIds[k], threads[i].context)
           ret == [deleted_count |-> deleted_count + 1,
                   missing_ids |-> missing_ids]
       IN  /\ store' = st.store
           /\ operation_log' = st.log
           /\ threads' = IF k = Len(ConcDeleteIds) THEN Finish(i, "ok", ret)
                         ELSE [threads EXCEPT ![i].ret = ret,
                                              ![i].pc = "exists"]
    /\ UNCHANGED <<call, before, merge, lock, heap>>

\* store.clear(), as the admin purge calls it: one store call
ClearCall(i) ==
    /\ threads[i].pc = "idle"
    /\ LET st == store_clear(St)
       IN  /\ store' = st.store
           /\ operation_log' = st.log
    /\ threads' = [threads EXCEPT ![i].op = "clear", ![i].pc = "done",
                                  ![i].outcome = "ok"]
    /\ UNCHANGED <<call, before, merge, lock, heap>>

\* The filter of the concurrent scans: {"data.a": {"eq": 1}}
ConcFilter ==
    TradeFilter(FilterDict(<<Item(<<"data", ".", "a">>,
                                  Conds(<<Cond("eq", Num(1))>>))>>))

\* load_by_filter and count_by_filter: "all_trades = self._store.get_all()",
\* one store call; lines 351 and 396.  seen records the store as that call
\* found it.
FilterGetAll(i) ==
    /\ threads[i].pc = "idle"
    /\ \E op \in {"load_by_filter", "count_by_filter"} :
         threads' = [threads EXCEPT ![i].op = op, ![i].pc = "filter",
                                    ![i].existing = List(store_get_all(St)),
                                    ![i].seen = St]
    /\ UNCHANGED <<store, operation_log, call, before, merge, lock, heap>>

all_trades_reread(i) == store_get_all(St)

\* The local all_trades of a scan: the list get_all built
all_trades(i) == threads[i].existing.l

\* load_by_filter and count_by_filter: _apply_filter over all_trades, away
\* from the store; lines 353-356 and 397-398
FilterApply(i) ==
    /\ threads[i].pc = "filter"
    /\ LET r == IF threads[i].op = "load_by_filter"
                THEN matching_trades(all_trades(i), ConcFilter, 1, <<>>)
                ELSE count_matching(all_trades(i), ConcFilter, 1, 0)
       IN  threads' = Finish(i, r.outcome, r.ret)
    /\ UNCHANGED <<store, operation_log, call, before, merge, lock, heap>>

NextConc ==
    \E i \in ThreadIds :
        \/ SaveNewBegin(i)
        \/ SaveNewExists(i)
        \/ SaveNewSave(i)
        \/ SaveUpdateBegin(i)
        \/ SaveUpdateExists(i)
        \/ SaveUpdateSave(i)
        \/ SavePartialBegin(i)
        \/ SavePartialGet(i)
        \/ SavePartialSave(i)
        \/ DeleteByIdCall(i)
        \/ LoadByIdsBegin(i)
        \/ LoadByIdsGet(i)
        \/ DeleteByIdsBegin(i)
        \/ DeleteByIdsExists(i)
        \/ DeleteByIdsDelete(i)
        \/ ClearCall(i)
        \/ FilterGetAll(i)
        \/ FilterApply(i)

SpecConc == InitConc /\ [][NextConc]_vars

----------------------------------------------------------------------------
(* Inside InMemoryStore: concurrent callers of the store's own methods,    *)
(* with the lock and the statements under it as separate steps.            *)

lock_taken_regardless(l, i) == TRUE

\* "with self._lock": threading.RLock lets a caller in when no other caller
\* holds it
lock_free(l, i) == l \in {0, i}

\* The arguments of the store calls
StoreSaves == {[trade_id |-> "t1", trade_data |-> DocA],
               [trade_id |-> "t1", trade_data |-> DocC],
               [trade_id |-> "t2", trade_data |-> DocB]}
StoreReads == {"get", "exists"}
StoreScans == {"get_all", "get_operation_log"}

Enter(i, op, trade_id, trade_data, context) ==
    /\ threads[i].pc = "idle"
    /\ lock_free(lock, i)
    /\ lock' = i
    /\ threads' = [threads EXCEPT ![i] =
                      [threads[i] EXCEPT !.op = op, !.trade_id = trade_id,
                                         !.trade = trade_data,
                                         !.context = context,
                                         !.pc = "locked"]]
    /\ UNCHANGED <<store, operation_log, call, before, merge, heap>>

\* A caller enters one of the store's methods: lines 34, 48, 61, 75, 89,
\* 94 and 105
StoreCall(i) ==
    \/ \E a \in StoreSaves, context \in ValidContexts :
          Enter(i, "save", a.trade_id, a.trade_data, context)
    \/ \E op \in StoreReads, trade_id \in TradeIds :
          Enter(i, op, trade_id, None, CtxA)
    \/ \E trade_id \in TradeIds : Enter(i, "delete", trade_id, None, CtxB)
    \/ \E op \in StoreScans \cup {"clear"} : Enter(i, op, "", None, CtxA)

\* save: self._store[trade_id] = trade_data, line 35
StoreSaveMap(i) ==
    /\ threads[i].pc = "locked"
    /\ threads[i].op = "save"
    /\ store' = Put(store, threads[i].trade_id, threads[i].trade)
    /\ threads' = [threads EXCEPT ![i].pc = "log"]
    /\ UNCHANGED <<operation_log, call, before, merge, lock, heap>>

\* delete: "if trade_id in self._store: del self._store[trade_id]", else
\* return False, lines 76-80
StoreDeleteMap(i) ==
    /\ threads[i].pc = "locked"
    /\ threads[i].op = "delete"
    /\ IF threads[i].trade_id \in DOMAIN store
       THEN /\ store' = Del(store, threads[i].trade_id)
            /\ threads' = [threads EXCEPT ![i].pc = "log"]
       ELSE /\ store' = store
            /\ threads' = [threads EXCEPT ![i].pc = "release",
                                          ![i].ret = Bool(FALSE)]
    /\ UNCHANGED <<operation_log, call, before, merge, lock, heap>>

\* save and delete: self._log_operation(...), lines 36 and 78-79
StoreLog(i) ==
    /\ threads[i].pc = "log"
    /\ operation_log' = log_operation(operation_log, threads[i].op,
                                      threads[i].trade_id, threads[i].context)
    /\ threads' = [threads EXCEPT ![i].pc = "release",
                                  ![i].ret = IF threads[i].op = "delete"
                                             THEN Bool(TRUE) ELSE None]
    /\ UNCHANGED <<store, call, before, merge, lock, heap>>

\* get, exists, get_all, get_operation_log: the value returned, lines 49,
\* 62, 90 and 106
StoreRead(i) ==
    /\ threads[i].pc = "locked"
    /\ threads[i].op \in StoreReads \cup StoreScans
    /\ threads' = [threads EXCEPT ![i].pc = "release", ![i].ret =
         CASE threads[i].op = "get" -> store_get(St, threads[i].trade_id)
           [] threads[i].op = "exists" ->
                 Bool(store_exists(St, threads[i].trade_id))
           [] threads[i].op = "get_all" -> List(store_get_all(St))
           [] threads[i].op = "get_operation_log" ->
                 [t |-> "log", entries |-> operation_log]]
    /\ UNCHANGED <<store, operation_log, call, before, merge, lock, heap>>

\* clear: self._store.clear(), line 95
StoreClearMap(i) ==
    /\ threads[i].pc = "locked"
    /\ threads[i].op = "clear"
    /\ store' = EmptyDict
    /\ threads' = [threads EXCEPT ![i].pc = "clear_log"]
    /\ UNCHANGED <<operation_log, call, before, merge, lock, heap>>

\* clear: self._operation_log.clear(), line 96
StoreClearLog(i) ==
    /\ threads[i].pc = "clear_log"
    /\ operation_log' = <<>>
    /\ threads' = [threads EXCEPT ![i].pc = "release"]
    /\ UNCHANGED <<store, call, before, merge, lock, heap>>

\* A return that leaves the lock held
StoreRelease_keeps_lock(i) ==
    /\ threads[i].pc = "release"
    /\ threads' = [threads EXCEPT ![i].pc = "done", ![i].outcome = "ok"]
    /\ UNCHANGED <<store, operation_log, call, before, merge, lock, heap>>

\* The end of the with block: the lock is released and the call returns
StoreRelease(i) ==
    /\ threads[i].pc = "release"
    /\ lock' = 0
    /\ threads' = [threads EXCEPT ![i].pc = "done", ![i].outcome = "ok"]
    /\ UNCHANGED <<store, operation_log, call, before, merge, heap>>

\* The next step of caller i: entering a method when the lock lets it in,
\* or the next statement of the method it is in
StoreStep(i) ==
    \/ StoreCall(i)
    \/ StoreSaveMap(i)
    \/ StoreDeleteMap(i)
    \/ StoreLog(i)
    \/ StoreRead(i)
    \/ StoreClearMap(i)
    \/ StoreClearLog(i)
    \/ StoreRelease(i)

NextStore == \E i \in ThreadIds : StoreStep(i)

SpecStore == InitConc /\ [][NextStore]_vars

\* The same callers under a fair scheduler: a caller that can take a step
\* is not passed over forever
SpecStoreFair == SpecStore /\ \A i \in ThreadIds : WF_vars(StoreStep(i))

----------------------------------------------------------------------------
(* Queries: load_by_filter, list_by_filter and count_by_filter over the    *)
(* stores that saving some of the documents below, in either order,        *)
(* leaves.                                                                 *)

Amount(id, amount, name) ==
    [id |-> Str(id), data |-> Map([amount |-> amount, name |-> name])]

\* Amounts 50 to 250 with names, then a string amount, an explicit null
\* amount and a "data" that is no dict
FilterDocs ==
    << Amount("t1", Num(50), CStr(<<"a", "b">>)),
       Amount("t2", Num(100), CStr(<<"b", "a">>)),
       Amount("t3", Num(150), CStr(<<"a">>)),
       Amount("t4", Num(200), None),
       Amount("t5", Num(250), Num(1)),
       Amount("t6", CStr(<<"a">>), CStr(<<"b">>)),
       [id |-> Str("t7"), data |-> Map([amount |-> None])],
       [id |-> Str("t8"), data |-> Num(100)] >>

data_amount == <<"data", ".", "amount">>
data_name == <<"da", "ta", ".", "name">>

OneField(field_path, conditions) ==
    TradeFilter(FilterDict(<<Item(field_path, Conds(conditions))>>))

WellFormedFilters ==
    { TradeFilter(None),
      TradeFilter(FilterDict(<<>>)),
      OneField(data_amount, <<Cond("gte", Num(100)), Cond("lte", Num(200))>>),
      OneField(data_amount, <<Cond("gt", Num(100))>>),
      OneField(data_amount, <<Cond("lt", Num(150))>>),
      OneField(data_amount, <<Cond("eq", Num(150))>>),
      OneField(data_amount, <<Cond("ne", Num(150))>>),
      OneField(data_amount, <<Cond("eq", None)>>),
      OneField(data_amount, <<Cond("in", List(<<Num(50), Num(250)>>))>>),
      OneField(data_amount, <<Cond("nin", List(<<Num(50), None>>))>>),
      OneField(data_amount, <<Cond("gte", CStr(<<"a">>))>>),
      OneField(data_name, <<Cond("regex", CStr(<<"^", "a">>))>>),
      OneField(data_name, <<Cond("regex", CStr(<<"a", "$">>))>>),
      OneField(data_name, <<Cond("regex", CStr(<<"b", ".">>))>>),
      OneField(data_name, <<Cond("eq", None)>>),
      OneField(data_name, <<Cond("eq", CStr(<<"a">>))>>),
      OneField(<<"id">>, <<Cond("eq", Str("t1"))>>),
      OneField(<<"data", ".", "amount", ".", "x">>, <<Cond("eq", None)>>),
      OneField(<<"data", ".", ".", "amount">>, <<Cond("ne", None)>>),
      TradeFilter(FilterDict(
          <<Item(data_amount, Conds(<<Cond("gte", Num(100))>>)),
            Item(data_name, Conds(<<Cond("regex", CStr(<<"a">>))>>))>>)) }

MalformedFilters ==
    { TradeFilter(FilterDict(<<Item(data_amount, Num(5))>>)),
      OneField(data_amount, <<Cond("between", Num(1))>>),
      OneField(data_amount, <<Cond("gt", Num(100)), Cond("between", Num(1))>>),
      OneField(data_amount, <<Cond("in", Num(50))>>),
      OneField(data_amount, <<Cond("nin", CStr(<<"a">>))>>),
      OneField(data_name, <<Cond("regex", CStr(<<"(", "a">>))>>),
      OneField(data_name, <<Cond("regex", Num(1))>>),
      TradeFilter(FilterDict(
          <<Item(data_amount, Conds(<<Cond("lt", Num(100))>>)),
            Item(data_name, Conds(<<Cond("regex", CStr(<<"[">>))>>))>>)) }

Filters == WellFormedFilters \cup MalformedFilters

\* The store after saving the documents docs[k] with k in chosen, in
\* ascending or descending order of k
RECURSIVE saved(_, _, _, _)
saved(st, chosen, k, step) ==
    IF k < 1 \/ k > Len(FilterDocs) THEN st
    ELSE saved(IF k \in chosen
               THEN store_save(st, FilterDocs[k]["id"].s, FilterDocs[k], CtxA)
               ELSE st,
               chosen, k + step, step)

InitFilter ==
    /\ call = NoCall
    /\ threads = IdleThreads
    /\ merge = NoMerge
    /\ lock = 0
    /\ heap = NoHeap
    /\ \E chosen \in SUBSET DOMAIN FilterDocs, ascending \in BOOLEAN :
         LET st == saved([store |-> EmptyDict, log |-> <<>>], chosen,
                         IF ascending THEN 1 ELSE Len(FilterDocs),
                         IF ascending THEN 1 ELSE -1)
         IN  /\ store = st.store
             /\ operation_log = st.log
             /\ before = st

\* A query returns or raises
Query(op, filter_obj, r) ==
    /\ call.op = "none"
    /\ store' = r.st.store
    /\ operation_log' = r.st.log
    /\ call' = [NoCall EXCEPT !.op = op, !.filter_obj = filter_obj,
                              !.outcome = r.outcome, !.ret = r.ret,
                              !.status_code = status_code(op, r.outcome)]
    /\ before' = St
    /\ UNCHANGED <<threads, merge, lock, heap>>

LoadByFilter ==
    \E filter_obj \in Filters :
        Query("load_by_filter", filter_obj, load_by_filter(St, filter_obj))

ListByFilter ==
    \E filter_obj \in Filters :
        Query("list_by_filter", filter_obj, list_by_filter(St, filter_obj))

CountByFilter ==
    \E filter_obj \in Filters :
        Query("count_by_filter", filter_obj, count_by_filter(St, filter_obj))

\* A direct call of one of the store's reading methods
ReadStore ==
    \E op \in StoreReads \cup StoreScans, trade_id \in TradeIds :
        /\ call.op = "none"
        /\ call' = [NoCall EXCEPT
                      !.op = op,
                      !.trade_id = IF op \in StoreReads THEN trade_id ELSE "",
                      !.outcome = "ok",
                      !.ret = IF op = "get" THEN store_get(St, trade_id)
                              ELSE IF op = "exists"
                              THEN Bool(store_exists(St, trade_id))
                              ELSE IF op = "get_all"
                              THEN List(store_get_all(St))
                              ELSE List(operation_log)]
        /\ before' = St
        /\ UNCHANGED <<store, operation_log, threads, merge, lock, heap>>

NextFilter ==
    \/ LoadByFilter
    \/ ListByFilter
    \/ CountByFilter
    \/ LoadById
    \/ LoadByIds
    \/ ReadStore
    \/ Return

SpecFilter == InitFilter /\ [][NextFilter]_vars

----------------------------------------------------------------------------
(* Requests to the application: the service call of a route and the        *)
(* status of the response, over stores that hold a numeric and a string    *)
(* amount.                                                                 *)

\* The store the requests start on: some of the documents t1 (amount 50)
\* and t6 (amount "a"), saved in this order
InitHttp ==
    /\ call = NoCall
    /\ threads = IdleThreads
    /\ merge = NoMerge
    /\ lock = 0
    /\ heap = NoHeap
    /\ \E chosen \in SUBSET {1, 6} :
         LET st == saved([store |-> EmptyDict, log |-> <<>>], chosen, 1, 1)
         IN  /\ store = st.store
             /\ operation_log = st.log
             /\ before = st

\* POST /admin/purge; the request model has validated the context
Purge ==
    \E context \in ValidContexts :
        Complete("purge", None, "", <<>>, None, context,
                 purge_store(St, context))

\* POST /save/new, /load/id, /list/count and /admin/purge
NextHttp ==
    \/ SaveNew
    \/ LoadById
    \/ CountByFilter
    \/ Purge
    \/ Return

SpecHttp == InitHttp /\ [][NextHttp]_vars

----------------------------------------------------------------------------
(* The documents as Python objects: every dict is an object of its own,    *)
(* a nested dict is held by reference, and the store, the callers and the  *)
(* merge share objects wherever the code passes a dict without copying it. *)

MaxHeap == 10      \* dict objects in a behaviour of SpecHeap

Ref(a) == [t |-> "ref", a |-> a]
IsRef(v) == v.t = "ref"

RECURSIVE build(_, _)
RECURSIVE build_items(_, _, _, _)

\* The items of the dict d, its nested dicts built first
build_items(objects, d, keys, obj) ==
    IF keys = {}
    THEN [objects |-> Append(objects, obj), ref |-> Len(objects) + 1]
    ELSE LET key == CHOOSE k \in keys : TRUE
         IN  IF IsDict(d[key])
             THEN LET b == build(objects, d[key].m)
                  IN  build_items(b.objects, d, keys \ {key},
                                  Put(obj, key, Ref(b.ref)))
             ELSE build_items(objects, d, keys \ {key}, Put(obj, key, d[key]))

\* The dict a caller passes in, as new objects: the parsed request body
build(objects, d) == build_items(objects, d, DOMAIN d, EmptyDict)

\* The content of the dict at address a, nested dicts followed
RECURSIVE value_of(_, _)
value_of(objects, a) ==
    [k \in DOMAIN objects[a] |->
        IF IsRef(objects[a][k]) THEN Map(value_of(objects, objects[a][k].a))
        ELSE objects[a][k]]

\* A reference with the content it had when it was taken
Taken(objects, a) == [ref |-> a, value |-> value_of(objects, a)]

\* d[key] = value and del d[key] on the object itself
set_item(objects, a, key, value) ==
    [objects EXCEPT ![a] = Put(@, key, value)]
del_item(objects, a, key) == [objects EXCEPT ![a] = Del(@, key)]

dict_copy_is_alias(objects, a) == [objects |-> objects, ref |-> a]

\* dict.copy(): a new object with the same items, nested dicts shared
dict_copy(objects, a) ==
    [objects |-> Append(objects, objects[a]), ref |-> Len(objects) + 1]

RECURSIVE _deep_merge(_, _, _)
RECURSIVE _deep_merge_items(_, _, _, _)

\* The body of "for key, value in updates.items()" of _deep_merge for one
\* item, on the object result
_deep_merge_item(objects, result, key, value) ==
    IF value = None
    THEN IF key \in DOMAIN objects[result]
         THEN IF IsRef(objects[result][key])
              THEN del_item(objects, result, key)
              ELSE set_item(objects, result, key, None)
         ELSE set_item(objects, result, key, None)
    ELSE IF /\ IsRef(value)
            /\ key \in DOMAIN objects[result]
            /\ IsRef(objects[result][key])
         THEN LET r == _deep_merge(objects, objects[result][key].a, value.a)
              IN  set_item(r.objects, result, key, Ref(r.ref))
         ELSE set_item(objects, result, key, value)

\* The loop of _deep_merge over the items of updates still to do
_deep_merge_items(objects, result, updates, keys) ==
    IF keys = {} THEN objects
    ELSE LET key == CHOOSE k \in keys : TRUE
         IN  _deep_merge_items(
                 _deep_merge_item(objects, result, key, objects[updates][key]),
                 result, updates, keys \ {key})

\* TradeService._deep_merge on the objects existing and updates: the heap
\* it leaves and the object it returns
_deep_merge(objects, existing, updates) ==
    LET c == dict_copy(objects, existing)
    IN  [objects |-> _deep_merge_items(c.objects, c.ref, updates,
                                       DOMAIN objects[updates]),
         ref |-> c.ref]

\* A nested dict under a nested dict, and one where the document has none
UpdDeep == [data |-> Map([b |-> Map([c |-> Num(3)])]),
            extra |-> Map([e |-> Num(1)])]

HeapTrades == {DocA, DocB}
HeapIds == {"t1", "t2"}
HeapUpdates == {UpdA, UpdB, UpdData, UpdDeep}

InitHeap ==
    /\ store = EmptyDict
    /\ operation_log = <<>>
    /\ call = NoCall
    /\ before = [store |-> EmptyDict, log |-> <<>>]
    /\ threads = IdleThreads
    /\ merge = NoMerge
    /\ lock = 0
    /\ heap = NoHeap

\* save_new with a valid context: the caller's dict itself is stored; a
\* refused call leaves every object as it was
HeapSaveNew ==
    /\ \E trade \in HeapTrades :
         LET b == build(heap.objects, trade)
             trade_id == trade.id.s
         IN  /\ Len(b.objects) <= MaxHeap
             /\ heap' = IF trade_id \in DOMAIN heap.store
                        THEN heap
                        ELSE [heap EXCEPT !.objects = b.objects,
                                          !.store = Put(@, trade_id, b.ref)]
    /\ UNCHANGED <<store, operation_log, call, before, threads, merge, lock>>

\* save_update with a valid context: the map entry is pointed at the
\* caller's dict
HeapSaveUpdate ==
    /\ \E trade \in HeapTrades :
         LET b == build(heap.objects, trade)
             trade_id == trade.id.s
         IN  /\ Len(b.objects) <= MaxHeap
             /\ heap' = IF trade_id \notin DOMAIN heap.store
                        THEN heap
                        ELSE [heap EXCEPT !.objects = b.objects,
                                          !.store = Put(@, trade_id, b.ref)]
    /\ UNCHANGED <<store, operation_log, call, before, threads, merge, lock>>

\* save_partial with a valid context: get, _deep_merge, save; the caller
\* keeps its updates dict
HeapSavePartial ==
    /\ \E trade_id \in HeapIds, updates \in HeapUpdates :
         LET b == build(heap.objects, updates)
             existing_trade == heap.store[trade_id]
             merged_trade == _deep_merge(b.objects, existing_trade, b.ref)
         IN  IF trade_id \notin DOMAIN heap.store
             THEN heap' = heap
             ELSE /\ Len(merged_trade.objects) <= MaxHeap
                  /\ heap' = [heap EXCEPT
                                 !.objects = merged_trade.objects,
                                 !.store = Put(@, trade_id, merged_trade.ref),
                                 !.updates = {Taken(b.objects, b.ref)}]
    /\ UNCHANGED <<store, operation_log, call, before, threads, merge, lock>>

\* load_by_id of a stored trade: the caller is handed the stored dict
HeapLoadById ==
    /\ \E trade_id \in DOMAIN heap.store :
         heap' = [heap EXCEPT
                     !.held = {Taken(heap.objects, heap.store[trade_id])}]
    /\ UNCHANGED <<store, operation_log, call, before, threads, merge, lock>>

\* get_all: the caller is handed a list of the stored dicts
HeapGetAll ==
    /\ heap.store # EmptyDict
    /\ heap' = [heap EXCEPT
                   !.held = {Taken(heap.objects, heap.store[id]) :
                                id \in DOMAIN heap.store}]
    /\ UNCHANGED <<store, operation_log, call, before, threads, merge, lock>>

\* delete_by_id of a stored trade: del self._store[trade_id]
HeapDeleteById ==
    /\ \E trade_id \in DOMAIN heap.store :
         heap' = [heap EXCEPT !.store = Del(@, trade_id)]
    /\ UNCHANGED <<store, operation_log, call, before, threads, merge, lock>>

NextHeap ==
    \/ HeapSaveNew
    \/ HeapSaveUpdate
    \/ HeapSavePartial
    \/ HeapLoadById
    \/ HeapGetAll
    \/ HeapDeleteById

SpecHeap == InitHeap /\ [][NextHeap]_vars

----------------------------------------------------------------------------
(* Vocabulary of the properties *)

\* The id a save_new or save_update call carries
CallId == Get(call.trade, "id")

\* The call meets the preconditions that come before the existence check
CallWellFormed == call.context \in ValidContexts /\ ~Falsy(CallId)

Unchanged == store = before.store /\ operation_log = before.log

\* The deep merge as the documentation states it, rule by rule
RECURSIVE ExpectedMerge(_, _)
ExpectedMerge(existing, updates) ==
    LET removed == {k \in DOMAIN updates :
                       /\ updates[k] = None
                       /\ k \in DOMAIN existing
                       /\ IsDict(existing[k])}
    IN  [k \in (DOMAIN existing \cup DOMAIN updates) \ removed |->
            IF k \notin DOMAIN updates THEN existing[k]
            ELSE IF updates[k] = None THEN None
            ELSE IF /\ IsDict(updates[k])
                    /\ k \in DOMAIN existing
                    /\ IsDict(existing[k])
                 THEN Map(ExpectedMerge(existing[k].m, updates[k].m))
            ELSE updates[k]]

\* Both values are dicts, so the merge descends into them
Descends(existing, updates, k) ==
    /\ k \in DOMAIN existing
    /\ IsDict(existing[k])
    /\ updates[k] # None
    /\ IsDict(updates[k])

\* The result holds a dict under k
HoldsDict(result, k) == k \in DOMAIN result /\ IsDict(result[k])

RECURSIVE NullRule(_, _, _)
NullRule(existing, updates, result) ==
    \A k \in DOMAIN updates :
        /\ (updates[k] = None /\ k \in DOMAIN existing /\ IsDict(existing[k]))
              => k \notin DOMAIN result
        /\ (updates[k] = None
              /\ ~(k \in DOMAIN existing /\ IsDict(existing[k])))
              => (k \in DOMAIN result /\ result[k] = None)
        /\ Descends(existing, updates, k)
              => /\ HoldsDict(result, k)
                 /\ NullRule(existing[k].m, updates[k].m, result[k].m)

RECURSIVE Preserved(_, _, _)
Preserved(existing, updates, result) ==
    /\ \A k \in DOMAIN existing \ DOMAIN updates :
          k \in DOMAIN result /\ result[k] = existing[k]
    /\ \A k \in DOMAIN updates :
          Descends(existing, updates, k)
              => /\ HoldsDict(result, k)
                 /\ Preserved(existing[k].m, updates[k].m, result[k].m)

RECURSIVE Verbatim(_, _, _)
Verbatim(existing, updates, result) ==
    \A k \in DOMAIN updates :
        updates[k] # None =>
            IF Descends(existing, updates, k)
            THEN /\ HoldsDict(result, k)
                 /\ Verbatim(existing[k].m, updates[k].m, result[k].m)
            ELSE k \in DOMAIN result /\ result[k] = updates[k]

----------------------------------------------------------------------------
(* Properties *)

\* C1 - Round trip: save_new of a document with a non-empty id that is not
\* present, with a valid context, succeeds and returns the document
\* unchanged, and load_by_id of that id then returns a document equal to it.
C1_RoundTrip ==
    (call.op = "save_new" /\ CallWellFormed
        /\ CallId.s \notin DOMAIN before.store)
    => /\ call.outcome = "ok"
       /\ call.ret = call.trade
       /\ load_by_id(St, CallId.s).outcome = "ok"
       /\ load_by_id(St, CallId.s).ret = call.trade

C1_Witness ==
    /\ call.op = "save_new"
    /\ call.outcome = "ok"
    /\ call.trade = DocC
    /\ "t2" \in DOMAIN store

\* C2 - Duplicate prevention: save_new of an id that is present raises
\* AlreadyExists and leaves the stored document and the log as they were.
C2_DuplicatePrevention ==
    (call.op = "save_new" /\ CallWellFormed
        /\ CallId.s \in DOMAIN before.store)
    => /\ call.outcome = "AlreadyExists"
       /\ Unchanged
       /\ load_by_id(St, CallId.s).ret = before.store[CallId.s]

C2_Witness ==
    /\ call.op = "save_new"
    /\ call.outcome = "AlreadyExists"
    /\ call.trade = DocC
    /\ before.store["t1"] = DocA

\* C3 - Concurrent save_new calls with the same id, absent beforehand,
\* and no caller of another operation: at most one succeeds, once all have
\* finished exactly one has and the others raised AlreadyExists, the stored
\* document is the successful call's and the log holds one "save" entry for
\* the id.
C3_OneSaveNewWins ==
    \A id \in TradeIds :
      (/\ id \notin DOMAIN before.store
       /\ \A i \in ThreadIds : threads[i].op \in {"none", "save_new"}) =>
        LET callers == {i \in ThreadIds :
                           /\ threads[i].op = "save_new"
                           /\ threads[i].context \in ValidContexts
                           /\ threads[i].trade["id"].s = id}
            won == {i \in callers : threads[i].outcome = "ok"}
            saves == {k \in DOMAIN operation_log :
                         /\ operation_log[k].operation = "save"
                         /\ operation_log[k].trade_id = id}
        IN  /\ Cardinality(won) <= 1
            /\ Cardinality(saves) <= 1
            /\ \A i \in won : store[id] = threads[i].trade
            /\ (callers # {} /\ \A i \in callers : threads[i].pc = "done")
                  => /\ Cardinality(won) = 1
                     /\ \A i \in callers \ won :
                           threads[i].outcome = "AlreadyExists"

\* C4 - Context gating: a mutating call whose context has a missing, empty
\* or whitespace-only field raises InvalidContext and changes neither the
\* documents nor the log.
C4_ContextGating ==
    (call.op \in {"save_new", "save_update", "save_partial", "delete_by_id",
                  "delete_by_ids"}
        /\ call.context \in InvalidContexts)
    => call.outcome = "InvalidContext" /\ Unchanged

C4_Witness ==
    /\ call.op = "delete_by_ids"
    /\ call.outcome = "InvalidContext"
    /\ call.context.action = CStr(<<"\t", " ">>)
    /\ call.trade_ids = <<"t1", "t2">>
    /\ DOMAIN store = {"t1", "t2"}

\* C5 - save_partial of a present id stores and returns the deep merge of
\* the stored document and the updates, and load_by_id then returns it;
\* scenario A yields {id: t1, data: {a: 1, d: 5}}.
C5_SavePartialMerges ==
    (call.op = "save_partial" /\ call.context \in ValidContexts
        /\ call.trade_id \in DOMAIN before.store)
    => /\ call.outcome = "ok"
       /\ call.ret = ExpectedMerge(before.store[call.trade_id], call.updates)
       /\ store[call.trade_id] = call.ret
       /\ load_by_id(St, call.trade_id).ret = call.ret
       /\ (before.store[call.trade_id] = DocA /\ call.updates = UpdA)
             => call.ret = [id |-> Str("t1"),
                            data |-> Map([a |-> Num(1), d |-> Num(5)])]

C5_Witness ==
    /\ call.op = "save_partial"
    /\ call.outcome = "ok"
    /\ call.trade_id = "t1"
    /\ before.store["t1"] = DocA
    /\ call.updates = UpdA

\* C6 - Null semantics, at every level the merge descends to: a null over
\* a dict removes the key; a null over anything else, or over an absent
\* key, leaves the key present with value null.
C6_NullSemantics ==
    merge.done => NullRule(merge.existing, merge.updates, merge.result)

C6_Witness ==
    /\ merge.done
    /\ DOMAIN merge.existing = {"id", "a"}
    /\ merge.existing["a"] = Map([a |-> Map([c |-> Num(1)]), b |-> Num(1)])
    /\ merge.updates = [a |-> Map([a |-> None, b |-> None]), b |-> None]
    /\ merge.result["a"] = Map([b |-> None])

\* C7 - Merge preservation: a key of the stored document that the update
\* does not name at its level, at the top and inside every dict merged
\* recursively, is in the save_partial result with its value unchanged.
C7_MergePreservation ==
    merge.done
    => /\ Preserved(merge.existing, merge.updates, merge.result)
       /\ Preserved(merge.existing, merge.updates, store[MergeId])

C7_Witness ==
    /\ merge.done
    /\ DOMAIN merge.existing = {"id", "a", "b"}
    /\ merge.existing["a"] = Map([a |-> Num(1), b |-> List(<<Num(1)>>)])
    /\ merge.existing["b"] = Num(1)
    /\ merge.updates = [a |-> Map([a |-> None])]
    /\ merge.result["a"] = Map([a |-> None, b |-> List(<<Num(1)>>)])
    /\ merge.result["b"] = Num(1)
    /\ merge.result["id"] = Str(MergeId)

\* C8 - List replacement: a non-null update value, a list in particular,
\* is stored verbatim, unless it and the existing value are both dicts,
\* which are merged recursively.
C8_ListReplacement ==
    merge.done
    => /\ Verbatim(merge.existing, merge.updates, merge.result)
       /\ Verbatim(merge.existing, merge.updates, store[MergeId])

C8_Witness ==
    /\ merge.done
    /\ DOMAIN merge.existing = {"id", "a", "b"}
    /\ merge.existing["a"] = Map([b |-> List(<<Num(1)>>)])
    /\ merge.existing["b"] = List(<<Num(2), Num(3)>>)
    /\ merge.updates = [a |-> Map([b |-> List(<<Num(2), Num(3)>>)]),
                        b |-> List(<<Num(1)>>)]
    /\ merge.result["a"] = merge.updates["a"]

\* C9 - Full replace: save_update of a present id succeeds, returns the
\* document, and the stored document equals it: no field of the previous
\* document that the new one lacks survives.
C9_FullReplace ==
    (call.op = "save_update" /\ CallWellFormed
        /\ CallId.s \in DOMAIN before.store)
    => /\ call.outcome = "ok"
       /\ call.ret = call.trade
       /\ store[CallId.s] = call.trade
       /\ \A k \in DOMAIN before.store[CallId.s] \ DOMAIN call.trade :
             k \notin DOMAIN store[CallId.s]

C9_Witness ==
    /\ call.op = "save_update"
    /\ call.outcome = "ok"
    /\ call.trade = DocC
    /\ before.store["t1"] = DocA

\* C10 - NotFound: save_update, save_partial and load_by_id of an id that
\* is not present raise NotFound and change neither the documents nor the
\* log; the id stays absent.
C10_NotFound ==
    LET absent(id) == id \notin DOMAIN before.store IN
    (\/ call.op = "save_update" /\ CallWellFormed /\ absent(CallId.s)
     \/ call.op = "save_partial" /\ call.context \in ValidContexts
           /\ absent(call.trade_id)
     \/ call.op = "load_by_id" /\ absent(call.trade_id))
    => call.outcome = "NotFound" /\ Unchanged

C10_Witness ==
    /\ call.op = "save_partial"
    /\ call.outcome = "NotFound"
    /\ call.trade_id = "t2"
    /\ call.updates = UpdB
    /\ DOMAIN store = {"t1"}

\* C11 - save_update and save_partial never create a document: whenever the
\* write of one of them takes effect, among concurrent deletes, the id is in
\* the store at that instant.
C11_UpdatesNeverCreate ==
    [][\A i \in ThreadIds :
          (/\ threads[i].op \in {"save_update", "save_partial"}
           /\ threads[i].pc = "save"
           /\ threads'[i].pc = "done")
             => threads[i].trade_id \in DOMAIN store]_vars

\* The documents two concurrent partial updates of DocA, UpdA and UpdNote,
\* can leave: both field changes, or one of them only
BothUpdates ==
    [id |-> Str("t1"), data |-> Map([a |-> Num(1), d |-> Num(5)]),
     note |-> Num(1)]
OnlyUpdA == [id |-> Str("t1"), data |-> Map([a |-> Num(1), d |-> Num(5)])]
OnlyUpdNote ==
    [id |-> Str("t1"), data |-> Map([a |-> Num(1), b |-> Map([c |-> Num(2)])]),
     note |-> Num(1)]

\* Two save_partial callers of ConcId, present beforehand, with different
\* updates, both returned successfully; nobody else has called
TwoPartialsDone ==
    /\ ConcId \in DOMAIN before.store
    /\ \E i, j \in ThreadIds :
         /\ i # j
         /\ threads[i].op = "save_partial" /\ threads[i].updates = UpdA
         /\ threads[j].op = "save_partial" /\ threads[j].updates = UpdNote
         /\ threads[i].outcome = "ok" /\ threads[j].outcome = "ok"
         /\ \A k \in ThreadIds \ {i, j} : threads[k].op = "none"

\* C12 - Lost update: two concurrent save_partial calls on one present id
\* that update different fields both succeed and both append their "save"
\* entry, and the document left holds both field changes or, the lost
\* update, only one call's.
C12_LostUpdate ==
    TwoPartialsDone =>
        /\ store[ConcId] \in {BothUpdates, OnlyUpdA, OnlyUpdNote}
        /\ Len(operation_log) = Len(before.log) + 2
        /\ SubSeq(operation_log, 1, Len(before.log)) = before.log
        /\ \A k \in Len(before.log) + 1 .. Len(operation_log) :
              /\ operation_log[k].operation = "save"
              /\ operation_log[k].trade_id = ConcId
        /\ \E i, j \in ThreadIds :
              /\ i # j
              /\ threads[i].op = "save_partial"
              /\ threads[j].op = "save_partial"
              /\ operation_log[Len(before.log) + 1].context = threads[i].context
              /\ operation_log[Len(before.log) + 2].context = threads[j].context

C12_Witness ==
    ~(TwoPartialsDone /\ store[ConcId] \in {OnlyUpdA, OnlyUpdNote})

\* The callers inside the store lock
Inside == {i \in ThreadIds :
              threads[i].pc \in {"locked", "log", "clear_log", "release"}}

\* The map and the log agree: the ids present are those whose latest log
\* entry is a "save"
MapLogAgree(st) ==
    \A id \in TradeIds :
        LET entries == {k \in DOMAIN st.log : st.log[k].trade_id = id}
            latest == CHOOSE k \in entries : \A j \in entries : j <= k
        IN  id \in DOMAIN st.store <=>
              (entries # {} /\ st.log[latest].operation = "save")

\* The callers of save that have finished, when they are the only callers
\* so far, the store was empty and their ids differ
SavesOfDistinctIds ==
    LET savers == {i \in ThreadIds : threads[i].op = "save"}
    IN  /\ before.store = EmptyDict
        /\ savers # {}
        /\ \A i \in ThreadIds : threads[i].op \in {"none", "save"}
        /\ \A i \in savers : threads[i].pc = "done"
        /\ \A i, j \in savers :
              i # j => threads[i].trade_id # threads[j].trade_id

\* A finished get of an id, with nobody but callers of save about
GetAmongSaves(i) ==
    /\ threads[i].op = "get"
    /\ threads[i].pc = "done"
    /\ \A j \in ThreadIds \ {i} : threads[j].op \in {"none", "save"}

\* The documents written for the id so far: the one the store began with
\* and those of the saves whose map update has been made
Written(id) ==
    {before.store[x] : x \in DOMAIN before.store \cap {id}}
    \cup {threads[j].trade :
             j \in {k \in ThreadIds :
                      /\ threads[k].op = "save"
                      /\ threads[k].trade_id = id
                      /\ threads[k].pc \in {"log", "release", "done"}}}

\* C13 - Primitive atomicity: at most one store call is inside the lock,
\* and it is the lock's holder; a call that is about to read or write
\* finds the map and the log in agreement (no save or delete half done);
\* N finished saves of N distinct ids into an empty store leave exactly
\* those N documents and N "save" entries; a get among saves of its id
\* returns a whole document that was written, the old or a new one.
C13_PrimitiveAtomicity ==
    /\ Cardinality(Inside) <= 1
    /\ \A i \in Inside : lock = i
    /\ Inside = {} => lock = 0
    /\ \A i \in ThreadIds : threads[i].pc = "locked" => MapLogAgree(St)
    /\ lock = 0 => MapLogAgree(St)
    /\ SavesOfDistinctIds =>
          LET savers == {i \in ThreadIds : threads[i].op = "save"}
          IN  /\ DOMAIN store = {threads[i].trade_id : i \in savers}
              /\ \A i \in savers :
                    /\ store_get(St, threads[i].trade_id) = threads[i].trade
                    /\ Cardinality({k \in DOMAIN operation_log :
                          operation_log[k] =
                            LogEntry("save", threads[i].trade_id,
                                     threads[i].context)}) = 1
              /\ Len(operation_log) = Cardinality(savers)
    /\ \A i \in ThreadIds :
          GetAmongSaves(i) =>
              IF threads[i].trade_id \in DOMAIN before.store
              THEN threads[i].ret \in Written(threads[i].trade_id)
              ELSE threads[i].ret \in Written(threads[i].trade_id) \cup {None}

\* A get of an id the store began with has returned the document of a
\* save that ran beside it
C13_Witness ==
    ~(\E i \in ThreadIds :
         /\ GetAmongSaves(i)
         /\ threads[i].trade_id \in DOMAIN before.store
         /\ threads[i].ret # before.store[threads[i].trade_id])

\* C14 - Document id invariant: every stored document's top-level "id"
\* equals the id under which it is stored; no operation, save_partial with
\* an update naming "id" included, changes it.
C14_IdImmutable ==
    \A id \in DOMAIN store :
        /\ "id" \in DOMAIN store[id]
        /\ store[id]["id"] = Str(id)

\* The ids a group delete removes, in order: the first occurrences in ids
\* of the ids that were present
RECURSIVE Removals(_, _, _)
Removals(ids, k, present) ==
    IF k > Len(ids) THEN <<>>
    ELSE IF ids[k] \in present /\ \A j \in 1..(k - 1) : ids[j] # ids[k]
    THEN <<ids[k]>> \o Removals(ids, k + 1, present)
    ELSE Removals(ids, k + 1, present)

\* The last call appended these entries, and did nothing else, to the log
Appended(entries) == operation_log = before.log \o entries

\* C15 - Audit completeness: a successful save_new, save_update or
\* save_partial appends exactly one "save" entry, every removal of a present
\* id by delete_by_id or delete_by_ids exactly one "delete" entry, each with
\* the id affected and the caller's context; failed calls and deletes of
\* absent ids append nothing.
C15_AuditCompleteness ==
    /\ call.op \in {"save_new", "save_update"} /\ call.outcome = "ok"
          => Appended(<<LogEntry("save", CallId.s, call.context)>>)
    /\ call.op = "save_partial" /\ call.outcome = "ok"
          => Appended(<<LogEntry("save", call.trade_id, call.context)>>)
    /\ call.op = "delete_by_id" /\ call.outcome = "ok"
          => Appended(IF call.trade_id \in DOMAIN before.store
                      THEN <<LogEntry("delete", call.trade_id, call.context)>>
                      ELSE <<>>)
    /\ call.op = "delete_by_ids" /\ call.outcome = "ok"
          => LET removed == Removals(call.trade_ids, 1, DOMAIN before.store)
             IN  Appended([k \in DOMAIN removed |->
                             LogEntry("delete", removed[k], call.context)])
    /\ call.outcome \in {"InvalidContext", "ValueError", "AlreadyExists",
                          "NotFound"}
          => Appended(<<>>)

\* A group delete of t2, t1, t2 that removed both documents, and so added
\* two entries for three ids
C15_Witness ==
    ~(/\ call.op = "delete_by_ids"
      /\ call.trade_ids = <<"t2", "t1", "t2">>
      /\ Appended(<<LogEntry("delete", "t2", call.context),
                    LogEntry("delete", "t1", call.context)>>))

\* C16 - Append-only log: across every step other than clear() the log
\* before the step is a prefix of the log after it; only clear() empties it.
C16_AppendOnly ==
    [][call'.op # "clear" =>
          /\ Len(operation_log') >= Len(operation_log)
          /\ SubSeq(operation_log', 1, Len(operation_log)) = operation_log]_vars

\* A call has appended to a log that already held entries, after an
\* earlier clear() or none
C16_Witness ==
    ~(/\ call.op \in {"save_new", "save_update", "save_partial",
                      "delete_by_id", "delete_by_ids"}
      /\ Len(before.log) >= 2
      /\ Len(operation_log) > Len(before.log))

\* The last call was a delete_by_id with a well-formed context
DeleteCalled == call.op = "delete_by_id" /\ call.context \in ValidContexts

\* C17 - Delete idempotency: delete_by_id with a valid context never
\* fails; on an absent id it leaves the documents and the log unchanged, on
\* a present id it removes the document and appends one "delete" entry;
\* calling it again, any caller, leaves the state as the first call left it.
C17_DeleteIdempotent ==
    DeleteCalled =>
        /\ call.outcome = "ok"
        /\ call.trade_id \notin DOMAIN before.store => Unchanged
        /\ call.trade_id \in DOMAIN before.store =>
              /\ store = Del(before.store, call.trade_id)
              /\ Appended(<<LogEntry("delete", call.trade_id, call.context)>>)
        /\ \A context \in ValidContexts :
              LET again == delete_by_id(St, call.trade_id, context)
              IN  again.outcome = "ok" /\ again.st = St

\* The delete of an id is repeated: the call before had removed it
C17_Witness ==
    ~(/\ DeleteCalled
      /\ Len(before.log) >= 2
      /\ before.log[Len(before.log)].operation = "delete"
      /\ before.log[Len(before.log)].trade_id = call.trade_id
      /\ call.outcome = "ok"
      /\ Unchanged)

\* The latest log entry is the removal of the id
JustDeleted(log, id) ==
    /\ log # <<>>
    /\ log[Len(log)].operation = "delete"
    /\ log[Len(log)].trade_id = id

\* C18 - Delete removes and frees the id: after delete_by_id of a present
\* id, load_by_id raises NotFound and exists is false; a save_new with the
\* same id that follows succeeds and stores the new document.
C18_DeleteFreesId ==
    /\ (DeleteCalled /\ call.trade_id \in DOMAIN before.store) =>
          /\ load_by_id(St, call.trade_id).outcome = "NotFound"
          /\ ~store_exists(St, call.trade_id)
          /\ \A trade \in Trades, context \in ValidContexts :
                Get(trade, "id") = Str(call.trade_id) =>
                  LET r == save_new(St, trade, context)
                  IN  /\ r.outcome = "ok"
                      /\ r.st.store[call.trade_id] = trade
    /\ (/\ call.op = "save_new"
        /\ CallWellFormed
        /\ JustDeleted(before.log, CallId.s)) =>
          /\ call.outcome = "ok"
          /\ call.ret = call.trade
          /\ store_get(St, CallId.s) = call.trade

\* save, delete, save of one id: the second save_new succeeded and its
\* document is the one stored
C18_Witness ==
    ~(/\ call.op = "save_new"
      /\ call.outcome = "ok"
      /\ Len(before.log) = 2
      /\ before.log[1].operation = "save"
      /\ before.log[1].trade_id = CallId.s
      /\ JustDeleted(before.log, CallId.s)
      /\ store[CallId.s] = DocC)

\* The filter of Scenario C: data.amount between 100 and 200, inclusive
AmountRange ==
    OneField(data_amount, <<Cond("gte", Num(100)), Cond("lte", Num(200))>>)

\* Two calls end alike: both return, or both raise the same error
SameOutcome(a, b) == a.outcome = b.outcome

\* C19 - Count/list parity: on every store state and for every filter,
\* count_by_filter returns the number of documents load_by_filter returns,
\* and one raises InvalidFilter exactly when the other does.
C19_CountListParity ==
    /\ call.op = "count_by_filter" =>
          LET l == load_by_filter(St, call.filter_obj)
          IN  /\ SameOutcome(call, l)
              /\ call.outcome = "ok" => call.ret = Num(Len(l.ret.l))
    /\ call.op = "load_by_filter" =>
          LET c == count_by_filter(St, call.filter_obj)
          IN  /\ SameOutcome(call, c)
              /\ call.outcome = "ok" => c.ret = Num(Len(call.ret.l))

\* Counting Scenario C over a store that holds the five amounts gives 3
C19_Witness ==
    ~(/\ call.op = "count_by_filter"
      /\ call.filter_obj = AmountRange
      /\ {"t1", "t2", "t3", "t4", "t5"} \subseteq DOMAIN store
      /\ call.ret = Num(3))

\* The condition holds on the value: the reading of the operators in the
\* documentation of the filter language
Holds(operator, value, operand) ==
    LET ordered == \/ value.t = "num" /\ operand.t = "num"
                   \/ value.t = "str" /\ operand.t = "str"
        order == IF value.t = "num"
                 THEN IF value.n < operand.n THEN "lt"
                      ELSE IF value.n > operand.n THEN "gt" ELSE "eq"
                 ELSE str_order(chars_of(value), chars_of(operand), 1)
    IN  CASE operator = "eq" -> value = operand
          [] operator = "ne" -> value # operand
          [] operator = "gt" -> ordered /\ order = "gt"
          [] operator = "gte" -> ordered /\ order \in {"gt", "eq"}
          [] operator = "lt" -> ordered /\ order = "lt"
          [] operator = "lte" -> ordered /\ order \in {"lt", "eq"}
          [] operator = "regex" ->
               /\ value.t = "str"
               /\ \E j \in 1..(Len(chars_of(value)) + 1) :
                     match_here(chars_of(operand), 1, chars_of(value), j)
          [] operator = "in" ->
               \E k \in DOMAIN operand.l : operand.l[k] = value
          [] operator = "nin" ->
               \A k \in DOMAIN operand.l : operand.l[k] # value

\* Every condition of every field path of the filter holds on the document
Matches(trade, filter_obj) ==
    \/ filter_obj.filter = None
    \/ \A i \in DOMAIN filter_obj.filter.items :
          LET item == filter_obj.filter.items[i]
              value == get_nested_value(trade, item.field_path)
          IN  \A k \in DOMAIN item.conditions.items :
                Holds(item.conditions.items[k].operator, value,
                      item.conditions.items[k].expected_value)

\* C20 - Filter correctness: for every store state and every well-formed
\* filter, load_by_filter returns exactly the stored documents on which
\* every condition of the filter holds, each once.
C20_FilterCorrectness ==
    (call.op = "load_by_filter" /\ call.filter_obj \in WellFormedFilters) =>
        /\ call.outcome = "ok"
        /\ \A id \in DOMAIN store :
              Cardinality({k \in DOMAIN call.ret.l :
                              call.ret.l[k] = store[id]})
                = IF Matches(store[id], call.filter_obj) THEN 1 ELSE 0
        /\ \A k \in DOMAIN call.ret.l :
              \E id \in DOMAIN store : call.ret.l[k] = store[id]

\* The filters of the pool whose regex operand does not compile
InvalidRegexFilters ==
    { OneField(data_name, <<Cond("regex", CStr(<<"(", "a">>))>>),
      TradeFilter(FilterDict(
          <<Item(data_amount, Conds(<<Cond("lt", Num(100))>>)),
            Item(data_name, Conds(<<Cond("regex", CStr(<<"[">>))>>))>>)) }

\* C21 - Invalid regex fails fast: for every store state, load_by_filter
\* and count_by_filter raise InvalidFilter on a filter whose regex operand
\* is an invalid pattern; no empty or partial result is returned.
C21_InvalidRegexFailsFast ==
    (/\ call.op \in {"load_by_filter", "count_by_filter"}
     /\ call.filter_obj \in InvalidRegexFilters)
        => call.outcome = "InvalidFilter"

\* The filters of the pool with a condition set that is not a map, an
\* unknown operator, or an in/nin operand that is not a list
StructurallyMalformedFilters ==
    { TradeFilter(FilterDict(<<Item(data_amount, Num(5))>>)),
      OneField(data_amount, <<Cond("between", Num(1))>>),
      OneField(data_amount, <<Cond("gt", Num(100)), Cond("between", Num(1))>>),
      OneField(data_amount, <<Cond("in", Num(50))>>),
      OneField(data_amount, <<Cond("nin", CStr(<<"a">>))>>) }

\* C22 - Malformed filter detection: for every store state, whatever
\* documents are stored and whatever other conditions the filter contains,
\* load_by_filter and count_by_filter raise InvalidFilter on a filter with
\* a non-map condition set, an unknown operator or a non-list in/nin
\* operand.
C22_MalformedFilterDetected ==
    (/\ call.op \in {"load_by_filter", "count_by_filter"}
     /\ call.filter_obj \in StructurallyMalformedFilters)
        => call.outcome = "InvalidFilter"

\* The filters of the pool that hold only comparisons, all on data.amount
ComparisonFilters ==
    { OneField(data_amount, <<Cond("gte", Num(100)), Cond("lte", Num(200))>>),
      OneField(data_amount, <<Cond("gt", Num(100))>>),
      OneField(data_amount, <<Cond("lt", Num(150))>>),
      OneField(data_amount, <<Cond("gte", CStr(<<"a">>))>>) }

\* The value is null or can be ordered against the operand
NullOrComparable(value, operand) ==
    \/ value = None
    \/ value.t = "num" /\ operand.t = "num"
    \/ value.t = "str" /\ operand.t = "str"

\* The document is among those the call returned
Returned(trade) == \E k \in DOMAIN call.ret.l : call.ret.l[k] = trade

\* C23 - Comparison operators: gt, gte, lt and lte never match a document
\* whose resolved value is null, whether the path is absent or holds an
\* explicit null, and raise no error for it; on non-null comparable values
\* gt and lt are strict and gte and lte are inclusive.
C23_ComparisonOperators ==
    LET conditions == call.filter_obj.filter.items[1].conditions.items
        value(id) == get_nested_value(store[id], data_amount)
    IN  (/\ call.op = "load_by_filter"
         /\ call.filter_obj \in ComparisonFilters
         /\ \A id \in DOMAIN store, k \in DOMAIN conditions :
               NullOrComparable(value(id), conditions[k].expected_value))
          => /\ call.outcome = "ok"
             /\ \A id \in DOMAIN store :
                   Returned(store[id]) <=>
                      /\ value(id) # None
                      /\ \A k \in DOMAIN conditions :
                            LET v == value(id)
                                w == conditions[k].expected_value
                                o == conditions[k].operator
                            IN  IF v.t = "num"
                                THEN CASE o = "gt" -> v.n > w.n
                                       [] o = "gte" -> v.n >= w.n
                                       [] o = "lt" -> v.n < w.n
                                       [] o = "lte" -> v.n <= w.n
                                ELSE Holds(o, v, w)

\* amount > 100 over amounts 100 and 150, an explicit null and an absent
\* path returns the document with 150 alone
C23_Witness ==
    ~(/\ call.op = "load_by_filter"
      /\ call.filter_obj = OneField(data_amount, <<Cond("gt", Num(100))>>)
      /\ DOMAIN store = {"t2", "t3", "t7", "t8"}
      /\ call.outcome = "ok"
      /\ call.ret = List(<<store["t3"]>>))

\* The equality filters of the pool: the field path, its segments and the
\* operand
EqualityFilters ==
    { [path |-> data_amount, keys |-> <<"data", "amount">>, operand |-> None],
      [path |-> data_amount, keys |-> <<"data", "amount">>,
       operand |-> Num(150)],
      [path |-> data_name, keys |-> <<"data", "name">>, operand |-> None],
      [path |-> data_name, keys |-> <<"data", "name">>,
       operand |-> CStr(<<"a">>)],
      [path |-> <<"data", ".", "amount", ".", "x">>,
       keys |-> <<"data", "amount", "x">>, operand |-> None],
      [path |-> <<"id">>, keys |-> <<"id">>, operand |-> Str("t1")] }

\* The path keys[k..] is absent from the value: a segment is missing or an
\* intermediate value is not a map
RECURSIVE Absent(_, _, _)
Absent(value, keys, k) ==
    /\ k <= Len(keys)
    /\ \/ value.t # "map"
       \/ keys[k] \notin DOMAIN value.m
       \/ Absent(value.m[keys[k]], keys, k + 1)

\* The path keys[k..] is present in the value and holds an explicit null
RECURSIVE HoldsNull(_, _, _)
HoldsNull(value, keys, k) ==
    IF k > Len(keys) THEN value = None
    ELSE /\ value.t = "map"
         /\ keys[k] \in DOMAIN value.m
         /\ HoldsNull(value.m[keys[k]], keys, k + 1)

\* C24 - Path resolution: resolving a path never raises; a missing segment
\* or an intermediate value that is not a map resolves to null, so that
\* {path: {eq: null}} matches exactly the documents where the path is
\* absent or holds an explicit null, and {path: {eq: v}} with v not null
\* matches no document that lacks the path.
C24_PathResolution ==
    \A e \in EqualityFilters :
        (/\ call.op = "load_by_filter"
         /\ call.filter_obj = OneField(e.path, <<Cond("eq", e.operand)>>))
          => /\ call.outcome = "ok"
             /\ \A id \in DOMAIN store :
                   LET absent == Absent(Map(store[id]), e.keys, 1)
                       null == HoldsNull(Map(store[id]), e.keys, 1)
                   IN  IF e.operand = None
                       THEN Returned(store[id]) <=> (absent \/ null)
                       ELSE absent => ~Returned(store[id])

\* data.name = null over a name, an explicit null, a missing "name" and a
\* "data" that is no map returns the last three
C24_Witness ==
    ~(/\ call.op = "load_by_filter"
      /\ call.filter_obj = OneField(data_name, <<Cond("eq", None)>>)
      /\ DOMAIN store = {"t3", "t4", "t7", "t8"}
      /\ call.outcome = "ok"
      /\ Len(call.ret.l) = 3
      /\ ~Returned(store["t3"]))

\* The filter object without a filter and the one with an empty filter
EmptyFilters == {TradeFilter(None), TradeFilter(FilterDict(<<>>))}

\* C25 - Empty filter matches all: with an empty or absent filter,
\* load_by_filter returns every stored document and count_by_filter the
\* number of stored documents, on the empty store as on any other.
C25_EmptyFilterMatchesAll ==
    call.filter_obj \in EmptyFilters =>
        /\ call.op = "load_by_filter" =>
              /\ call.outcome = "ok"
              /\ Len(call.ret.l) = Cardinality(DOMAIN store)
              /\ \A id \in DOMAIN store : Returned(store[id])
        /\ call.op = "count_by_filter" =>
              /\ call.outcome = "ok"
              /\ call.ret = Num(Cardinality(DOMAIN store))

\* The empty filter counts all eight documents of a store that holds them
C25_Witness ==
    ~(/\ call.op = "count_by_filter"
      /\ call.filter_obj = TradeFilter(FilterDict(<<>>))
      /\ Cardinality(DOMAIN store) = Len(FilterDocs)
      /\ call.ret = Num(Len(FilterDocs)))

\* The positions of the ids of the call that the store holds
PresentAt == {k \in DOMAIN call.trade_ids : call.trade_ids[k] \in DOMAIN store}

\* C26 - Group load accounting: with no concurrent mutation, every
\* occurrence of an id that is present contributes its document to the
\* found list and every occurrence of an id that is absent contributes the
\* id to the missing list, so that len(found) + len(missing) = len(ids);
\* no id is reported both found and missing, and the call never raises for
\* a missing id.
C26_GroupLoadAccounting ==
    call.op = "load_by_ids" =>
        /\ call.outcome = "ok"
        /\ Unchanged
        /\ LET ids == call.trade_ids
               found == call.ret.found_trades
               missing == call.ret.missing_ids
           IN  /\ Len(found) = Cardinality(PresentAt)
               /\ \A k \in PresentAt :
                     found[Cardinality({j \in PresentAt : j <= k})]
                        = store[ids[k]]
               /\ missing = SelectSeq(ids, LAMBDA id : id \notin DOMAIN store)
               /\ Len(found) + Len(missing) = Len(ids)
               /\ \A k \in PresentAt, j \in DOMAIN missing :
                     missing[j] # ids[k]

\* Loading t2, t1, t2 from a store that holds t2 alone finds t2 twice and
\* misses t1
C26_Witness ==
    ~(/\ call.op = "load_by_ids"
      /\ call.trade_ids = <<"t2", "t1", "t2">>
      /\ DOMAIN store = {"t2"}
      /\ call.ret.found_trades = <<store["t2"], store["t2"]>>
      /\ call.ret.missing_ids = <<"t1">>)

\* C27 - Group load snapshot: under any interleaving with concurrent saves
\* and deletes, load_by_ids resolves all ids of one call against the same
\* snapshot of the store: an id duplicated in the list resolves the same
\* way at each occurrence, and no id is reported both found and missing.
C27_GroupLoadSnapshot ==
    \A i \in ThreadIds :
        (threads[i].op = "load_by_ids" /\ threads[i].pc = "done") =>
            LET found == threads[i].ret.found_trades
                missing == threads[i].ret.missing_ids
            IN  /\ found = <<>> \/ missing = <<>>
                /\ \A j, k \in DOMAIN found : found[j] = found[k]

\* The positions of the call's ids that hold the first occurrence of an id
\* present before the call
FirstPresentAt ==
    {k \in DOMAIN call.trade_ids :
        /\ call.trade_ids[k] \in DOMAIN before.store
        /\ \A j \in 1..(k - 1) : call.trade_ids[j] # call.trade_ids[k]}

\* C28 - Group delete accounting: with no concurrent mutation,
\* delete_by_ids returns as deleted_count the number of distinct input ids
\* that were present before the call and lists in missing_ids every other
\* occurrence, so that deleted_count + len(missing_ids) = len(ids);
\* afterwards none of the ids is present, and a second identical call
\* returns deleted_count 0 with all ids missing.
C28_GroupDeleteAccounting ==
    (call.op = "delete_by_ids" /\ call.context \in ValidContexts) =>
        LET ids == call.trade_ids
            others == DOMAIN ids \ FirstPresentAt
            again == delete_by_ids(St, ids, call.context)
        IN  /\ call.outcome = "ok"
            /\ call.ret.deleted_count =
                  Cardinality({ids[k] : k \in DOMAIN ids}
                                 \cap DOMAIN before.store)
            /\ Len(call.ret.missing_ids) = Cardinality(others)
            /\ \A k \in others :
                  call.ret.missing_ids[Cardinality({j \in others : j <= k})]
                     = ids[k]
            /\ call.ret.deleted_count + Len(call.ret.missing_ids) = Len(ids)
            /\ \A k \in DOMAIN ids : ids[k] \notin DOMAIN store
            /\ again.outcome = "ok"
            /\ again.ret.deleted_count = 0
            /\ again.ret.missing_ids = ids

\* Deleting t2, t1, t2 from a store that holds t2 alone deletes one
\* document and reports t1 and the second t2 as missing
C28_Witness ==
    ~(/\ call.op = "delete_by_ids"
      /\ call.context \in ValidContexts
      /\ call.trade_ids = <<"t2", "t1", "t2">>
      /\ DOMAIN before.store = {"t2"}
      /\ call.ret.deleted_count = 1
      /\ call.ret.missing_ids = <<"t1", "t2">>)

\* The reading operations of the service and of the store
ReadOperations ==
    {"load_by_id", "load_by_ids", "load_by_filter", "list_by_filter",
     "count_by_filter", "get", "exists", "get_all", "get_operation_log"}

\* C29 - Reads have no side effects: load_by_id, load_by_ids,
\* load_by_filter, list_by_filter and count_by_filter, whether they return
\* or raise, and the store's get, exists, get_all and get_operation_log
\* leave the document map and the operation log unchanged.
C29_ReadsHaveNoSideEffects ==
    call.op \in ReadOperations =>
        /\ store = before.store
        /\ operation_log = before.log

\* A load_by_id of t1 raises NotFound on a store that holds t2 alone
C29_Witness ==
    ~(/\ call.op = "load_by_id"
      /\ call.outcome = "NotFound"
      /\ DOMAIN store = {"t2"}
      /\ Len(operation_log) = 1)

\* C30 - Clear wipes all state: after clear() the store holds no documents
\* and the operation log is empty: get_all and get_operation_log return
\* empty lists, every load_by_id raises NotFound and count_by_filter of the
\* empty filter is 0; clear itself leaves no log entry.
C30_ClearWipesAllState ==
    call.op = "clear" =>
        /\ store = EmptyDict
        /\ operation_log = <<>>
        /\ store_get_all(St) = <<>>
        /\ \A trade_id \in TradeIds :
              load_by_id(St, trade_id).outcome = "NotFound"
        /\ count_by_filter(St, TradeFilter(FilterDict(<<>>))).ret = Num(0)

\* The store cleared held two documents and a log of three entries
C30_Witness ==
    ~(/\ call.op = "clear"
      /\ Cardinality(DOMAIN before.store) = 2
      /\ Len(before.log) = MaxLog)

\* C31 - Missing id: save_new and save_update called with a valid context
\* and a document that has no top-level "id" field raise a Value error,
\* and the id->document map and the operation log are unchanged.
C31_MissingId ==
    (/\ call.op \in {"save_new", "save_update"}
     /\ call.context \in ValidContexts
     /\ "id" \notin DOMAIN call.trade)
        => /\ call.outcome = "ValueError"
           /\ Unchanged

\* save_update of a document without an id raises on a store that holds
\* documents
C31_Witness ==
    ~(/\ call.op = "save_update"
      /\ call.context \in ValidContexts
      /\ call.trade = DocNoId
      /\ call.outcome = "ValueError"
      /\ DOMAIN store = TradeIds)

\* Every caller's call has returned
AllReturned == \A i \in ThreadIds : threads[i].pc = "done"

Raised == call.op # "none" /\ call.outcome \notin {"ok", "none"}

\* C33 - Error-to-status mapping of the deployment: AlreadyExists maps to
\* 409, NotFound to 404, InvalidContext to 422, InvalidFilter to 422, and
\* every other error outcome of a service call maps to 500.
C33_StatusMapping ==
    Raised =>
        call.status_code =
            CASE call.outcome = "AlreadyExists" -> 409
              [] call.outcome = "NotFound" -> 404
              [] call.outcome = "InvalidContext" -> 422
              [] call.outcome = "InvalidFilter" -> 422
              [] OTHER -> 500

\* C33 as the handlers have it: AlreadyExists maps to 409, NotFound to
\* 404, InvalidContext, InvalidFilter and the Value error of a missing id
\* to 422, and every other error outcome of a service call to 500.
C33_StatusMappingAmended ==
    Raised =>
        call.status_code =
            CASE call.outcome = "AlreadyExists" -> 409
              [] call.outcome = "NotFound" -> 404
              [] call.outcome \in {"InvalidContext", "InvalidFilter",
                                   "ValueError"} -> 422
              [] OTHER -> 500

\* A save_new of a document without an id, under a valid context, raises
\* the Value error and is answered with 422
C33_Witness ==
    ~(/\ call.op = "save_new"
      /\ call.context \in ValidContexts
      /\ call.outcome = "ValueError"
      /\ call.status_code = 422)

\* C34 - The admin purge logs the purge with its context metadata: after a
\* purge request the operation log holds an entry recording that purge,
\* with the request's user, agent, action and intent, while all trades are
\* deleted.
C34_PurgeIsLogged ==
    call.op = "purge" =>
        /\ store = EmptyDict
        /\ \E k \in DOMAIN operation_log :
              /\ operation_log[k].operation = "purge"
              /\ operation_log[k].context = call.context

\* The sum of the deleted_count values the group deletes of S returned
RECURSIVE DeletedCounts(_)
DeletedCounts(S) ==
    IF S = {} THEN 0
    ELSE LET i == CHOOSE x \in S : TRUE
         IN  threads[i].ret.deleted_count + DeletedCounts(S \ {i})

\* C35 - Under any interleaving with other concurrent deleters, the
\* deleted_count a delete_by_ids call returns is the number of documents
\* the call itself removed, the number of "delete" log entries it
\* appended; a document removed by a concurrent call between the existence
\* check and the delete is not counted, so the returned deleted_counts sum
\* to the number of "delete" log entries.
C35_DeletedCountIsOwnRemovals ==
    (/\ \A i \in ThreadIds : threads[i].pc = "done"
     /\ \A i \in ThreadIds : threads[i].op # "delete_by_id")
        => DeletedCounts({i \in ThreadIds :
                             /\ threads[i].op = "delete_by_ids"
                             /\ threads[i].outcome = "ok"})
             = Cardinality({k \in DOMAIN operation_log :
                               operation_log[k].operation = "delete"})

\* The ids whose most recent entry in the operation log is a "save"
LastSaved ==
    {operation_log[k].trade_id :
        k \in {k \in DOMAIN operation_log :
                  /\ operation_log[k].operation = "save"
                  /\ \A j \in DOMAIN operation_log :
                        j > k => operation_log[j].trade_id
                                    # operation_log[k].trade_id}}

\* C36 - Map/log consistency: in every reachable state, under any
\* interleaving of service operations and clear(), the ids present in the
\* store are the ids whose most recent operation-log entry is a "save";
\* ids whose latest entry is a "delete", or that have no entry, are absent.
C36_MapLogConsistency == DOMAIN store = LastSaved

\* A save_new has stored its document after a concurrent clear(), and a
\* deleted id is absent
C36_Witness ==
    ~(/\ \E i, j \in ThreadIds :
            /\ threads[i].op = "clear"
            /\ threads[j].op = "save_new"
            /\ threads[j].outcome = "ok"
      /\ DOMAIN store = {"t2"}
      /\ Len(operation_log) = 1)

\* C37: whatever saves, deletes and clears run beside it, a finished
\* load_by_filter or count_by_filter returns the matches, or their number, of
\* its filter over the one store state its get_all call found
C37_ScanIsSnapshot ==
    \A i \in ThreadIds :
        (threads[i].pc = "done"
         /\ threads[i].op \in {"load_by_filter", "count_by_filter"}) =>
            LET r == IF threads[i].op = "load_by_filter"
                     THEN load_by_filter(threads[i].seen, ConcFilter)
                     ELSE count_by_filter(threads[i].seen, ConcFilter)
            IN  /\ threads[i].outcome = r.outcome
                /\ threads[i].ret = r.ret

\* A scan that returned a match after another caller had changed the store
\* under it: its result is no longer the one of the store it returns to
C37_Witness ==
    \E i \in ThreadIds :
        /\ threads[i].pc = "done"
        /\ threads[i].op = "load_by_filter"
        /\ threads[i].ret # List(<<>>)
        /\ threads[i].seen # St
        /\ threads[i].ret # load_by_filter(St, ConcFilter).ret

\* C38: a load_by_filter or count_by_filter call ends with a result or with
\* InvalidFilter, never with an error of another kind, whatever the filter
\* and the stored documents
C38_ThreeOutcomes ==
    call.op \in {"load_by_filter", "count_by_filter"} =>
        call.outcome \in {"ok", "InvalidFilter"}

\* C39: no service operation changes a dict that exists: every object of
\* the heap keeps its items through every step, so the document a caller
\* was handed by load_by_id or get_all, and the updates dict it passed to
\* save_partial, have the content they had, at every nesting level, whatever
\* save_update, save_partial or delete came later
C39_NoMutationInPlace ==
    /\ [][\A a \in DOMAIN heap.objects :
             heap'.objects[a] = heap.objects[a]]_vars
    /\ [](\A h \in heap.held \cup heap.updates :
             value_of(heap.objects, h.ref) = h.value)

\* A caller holds a document that a later save_partial has replaced in the
\* store by a merged one of other content, the two sharing a nested dict
C39_Witness ==
    \E h \in heap.held :
        \E id \in DOMAIN heap.store :
            /\ h.value.id = Str(id)
            /\ heap.store[id] # h.ref
            /\ heap.updates # {}
            /\ value_of(heap.objects, heap.store[id]) # h.value
            /\ \E k \in DOMAIN heap.objects[h.ref] :
                  /\ IsRef(heap.objects[h.ref][k])
                  /\ k \in DOMAIN heap.objects[heap.store[id]]
                  /\ heap.objects[heap.store[id]][k] = heap.objects[h.ref][k]

\* The document of the call has no usable id: the field is absent or falsy
NoUsableId == Falsy(Get(call.trade, "id"))

\* C40 - Error precedence: save_new and save_update report InvalidContext
\* before the Value error of a missing id, and that Value error before
\* AlreadyExists or NotFound; save_partial reports InvalidContext before
\* NotFound; delete_by_id and delete_by_ids report InvalidContext also when
\* every id they name is absent.
C40_ErrorPrecedence ==
    /\ (call.op \in {"save_new", "save_update"}
          /\ call.context \in InvalidContexts)
         => call.outcome = "InvalidContext"
    /\ (call.op \in {"save_new", "save_update"}
          /\ call.context \in ValidContexts /\ NoUsableId)
         => call.outcome = "ValueError"
    /\ (call.op = "save_partial" /\ call.context \in InvalidContexts
          /\ call.trade_id \notin DOMAIN before.store)
         => call.outcome = "InvalidContext"
    /\ (call.op = "delete_by_id" /\ call.context \in InvalidContexts
          /\ call.trade_id \notin DOMAIN before.store)
         => call.outcome = "InvalidContext"
    /\ (call.op = "delete_by_ids" /\ call.context \in InvalidContexts
          /\ \A k \in DOMAIN call.trade_ids :
                call.trade_ids[k] \notin DOMAIN before.store)
         => call.outcome = "InvalidContext"

\* save_update of a document without an id, with an invalid context, on a
\* store that holds documents: two errors apply and the context's is raised
C40_Witness ==
    /\ call.op = "save_update"
    /\ call.context \in InvalidContexts
    /\ NoUsableId
    /\ call.outcome = "InvalidContext"
    /\ store # EmptyDict

====
